---------------------------- MODULE Spec2Model ----------------------------
(***************************************************************************)
(* Model of the scenario synthesis engine of mms_msg                       *)
(* (src/mms_msg/scenario.py): sparse placement, scale computation, RIR     *)
(* onset detection, convolution with early/tail split, noise injection and *)
(* the anechoic and multi-channel scenario builders.                       *)
(*                                                                         *)
(* Conventions                                                             *)
(*  - A Python list / 1-D array is a sequence; a 2-D array of shape (D, N) *)
(*    is a sequence of D rows of length N.  Python indices are 0-based,    *)
(*    the sequences 1-based: every operator that returns or takes a Python *)
(*    index says so.                                                       *)
(*  - A Python dict is a function whose DOMAIN is its set of keys.         *)
(*  - None is the empty sequence <<>>; a tuple is a non-empty sequence.    *)
(*  - Sample values are integers.  A value multiplied by a scale factor    *)
(*    (an irrational number in general) is kept as coefficient * symbol.   *)
(***************************************************************************)
EXTENDS Integers, Sequences, FiniteSets, TLC

VARIABLES
    pc,          \* "idle" | "ready" | "done": position of the driver
    example,     \* the example dict handed to the operation under way
    given,       \* that example as it was when the operation was called
    params,      \* keyword arguments of the operation under way
    outcome,     \* "none" | "returned" | name of the exception raised
    ret,         \* return value of the last pure-function call
    np_random,   \* state of numpy's process-wide generator np.random
    noise_log    \* results of the add_microphone_noise calls made so far

vars == <<pc, example, given, params, outcome, ret, np_random, noise_log>>

None == <<>>

(***************************************************************************)
(* Bounds of the model                                                     *)
(***************************************************************************)
MaxRirLen == 3        \* longest impulse response drawn
MaxRirAmp == 2        \* largest |sample| of a drawn impulse response
MaxChannels == 2      \* most channels D of a drawn impulse response
MaxK == 2             \* most sources of a drawn example
MaxSrcLen == 2        \* longest source signal drawn
MaxOffset == 2        \* largest offset drawn
MaxT == 3             \* longest observation drawn
MaxEarly == 2         \* largest |early_rir_samples| drawn besides the default

(***************************************************************************)
(* Generic helpers on sequences and dicts                                  *)
(***************************************************************************)
Min2(a, b) == IF a <= b THEN a ELSE b
Max2(a, b) == IF a >= b THEN a ELSE b
Abs(x) == IF x < 0 THEN -x ELSE x

RECURSIVE SumSeq(_)
SumSeq(s) == IF Len(s) = 0 THEN 0 ELSE Head(s) + SumSeq(Tail(s))

\* zip(a, b): pairs up to the shorter of the two lists
Zip(a, b) == [i \in 1..Min2(Len(a), Len(b)) |-> <<a[i], b[i]>>]

\* d[k] = v on a dict
Put(d, k, v) == [x \in (DOMAIN d) \cup {k} |-> IF x = k THEN v ELSE d[x]]
HasKey(d, k) == k \in DOMAIN d


(***************************************************************************)
(* numpy arrays: [nd |-> number of dimensions, a |-> nested sequences of   *)
(* integer coefficients, unit |-> the real number every coefficient is     *)
(* multiplied by].  A freshly loaded array has unit One; x * scale keeps   *)
(* the coefficients and sets the unit to the scale factor.                 *)
(***************************************************************************)
\* the divisor applied to every scale factor
ScaleDivisor == 71

\* the number 1, and 10^(lw/20) / std / div, where std = sqrt(vn/vd) or,
\* with tiny set, np.finfo(dtype).tiny
One == [kind |-> "one", lw |-> 0, vn |-> 1, vd |-> 1, tiny |-> FALSE, div |-> 1]
ScaleFactor(lw, vn, vd) ==
    [kind |-> "scale", lw |-> lw, vn |-> vn, vd |-> vd,
     tiny |-> vn = 0,    \* np.maximum(std, np.finfo(dtype).tiny)
     div |-> ScaleDivisor]

A1(seq) == [nd |-> 1, a |-> seq, unit |-> One]
A2(rows) == [nd |-> 2, a |-> rows, unit |-> One]
A3(mats) == [nd |-> 3, a |-> mats, unit |-> One]

\* x.shape, a Python tuple
Shape(x) ==
    IF x.nd = 1 THEN <<Len(x.a)>>
    ELSE IF x.nd = 2 THEN <<Len(x.a), Len(x.a[1])>>
    ELSE <<Len(x.a), Len(x.a[1]), Len(x.a[1][1])>>

RECURSIVE Flatten(_)
Flatten(rows) == IF Len(rows) = 0 THEN <<>> ELSE Head(rows) \o Flatten(Tail(rows))

\* np.reshape(h, (-1, h.shape[-1])): the rows along the last axis
RowsOf(x) ==
    IF x.nd = 1 THEN <<x.a>>
    ELSE IF x.nd = 2 THEN x.a
    ELSE Flatten(x.a)

\* x.size
Size(x) == Len(Flatten(RowsOf(x)))

\* Python's normalisation of a slice bound i for a sequence of length n
SliceIndex(i, n) == IF i < 0 THEN Max2(i + n, 0) ELSE Min2(i, n)

(***************************************************************************)
(* get_rir_start_sample                                                    *)
(***************************************************************************)
\* level_ratio = n / d with d > 0; the default is 1e-1
DefaultLevelRatio == [n |-> 1, d |-> 10]

\* h.shape[0] must stay below this number
MaxLeadingDim == 20

\* np.argmax(a): Python index of the first occurrence of the maximum
ArgMax(a) ==
    (CHOOSE i \in 1..Len(a) :
        /\ \A j \in 1..Len(a) : a[j] <= a[i]
        /\ \A j \in 1..(i - 1) : a[j] < a[i]) - 1

\* np.argmax of a boolean array: Python index of the first True, 0 if none
ArgMaxBool(b) ==
    IF \E i \in 1..Len(b) : b[i]
    THEN (CHOOSE i \in 1..Len(b) : b[i] /\ \A j \in 1..(i - 1) : ~b[j]) - 1
    ELSE 0

\* mutant of RirStart1D: the threshold itself already counts as exceeded
RirStart1DAtThreshold(h, level_ratio) ==
    LET abs_h == [i \in 1..Len(h) |-> Abs(h[i])]
        max_index == ArgMax(abs_h)
        max_abs_value == abs_h[max_index + 1]
        larger_than_threshold ==
            [i \in 1..(max_index + 1) |->
                abs_h[i] * level_ratio.d >= level_ratio.n * max_abs_value]
    IN  ArgMaxBool(larger_than_threshold)

\* The 1-D case of get_rir_start_sample.  Returns a Python index.
RirStart1D(h, level_ratio) ==
    LET abs_h == [i \in 1..Len(h) |-> Abs(h[i])]
        max_index == ArgMax(abs_h)
        max_abs_value == abs_h[max_index + 1]
        \* abs_h[:max_index + 1] > level_ratio * max_abs_value
        larger_than_threshold ==
            [i \in 1..(max_index + 1) |->
                abs_h[i] * level_ratio.d > level_ratio.n * max_abs_value]
    IN  ArgMaxBool(larger_than_threshold)

\* np.min over a non-empty list of integers
MinOf(s) == CHOOSE m \in {s[i] : i \in 1..Len(s)} : \A i \in 1..Len(s) : m <= s[i]

\* mutant of get_rir_start_sample: only the first channel is looked at
RirStartFirstChannel(h, level_ratio) ==
    IF ~(level_ratio.n < level_ratio.d)
    THEN [status |-> "AssertionError", value |-> 0]
    ELSE [status |-> "ok", value |-> RirStart1D(RowsOf(h)[1], level_ratio)]

\* get_rir_start_sample(h, level_ratio): [status, value]
get_rir_start_sample(h, level_ratio) ==
    IF ~(level_ratio.n < level_ratio.d)
    THEN [status |-> "AssertionError", value |-> 0]
    ELSE IF h.nd > 1
    THEN IF ~(Shape(h)[1] < MaxLeadingDim)
         THEN [status |-> "AssertionError", value |-> 0]
         ELSE LET rows == RowsOf(h)
              IN  [status |-> "ok",
                   value |-> MinOf([i \in 1..Len(rows) |->
                                        RirStart1D(rows[i], level_ratio)])]
    ELSE [status |-> "ok", value |-> RirStart1D(h.a, level_ratio)]

(***************************************************************************)
(* Array arithmetic                                                        *)
(***************************************************************************)
SumSqSeq(s) == SumSeq([i \in 1..Len(s) |-> s[i] * s[i]])

\* np.mean(s_) of a 1-D array.  The drawn signals have an integral mean, so
\* that s_ - np.mean(s_) stays within the integers.
Mean(x) == SumSeq(x.a) \div Len(x.a)

\* s_ - np.mean(s_)
MeanNormalize(x) == [x EXCEPT !.a = [i \in 1..Len(x.a) |-> x.a[i] - Mean(x)]]

\* x_ * scale_ with scale_ of shape (1,) * x_.ndim
Mul(x, scale) == [x EXCEPT !.unit = scale]

\* np.std(s)^2 = vn / vd over every element of s
VarianceOf(x) ==
    LET flat == Flatten(RowsOf(x))
        n == Len(flat)
    IN  [vn |-> n * SumSqSeq(flat) - SumSeq(flat) * SumSeq(flat), vd |-> n * n]

(***************************************************************************)
(* get_scale                                                               *)
(***************************************************************************)
\* mutant of get_scale: surplus log-weights or signals are ignored
GetScaleNoAssert(log_weights, signals) ==
    IF Len(signals) = 0
    THEN [status |-> "IndexError", value |-> <<>>]
    ELSE [status |-> "ok",
          value |-> [k \in 1..Min2(Len(log_weights), Len(signals)) |->
                        LET v == VarianceOf(signals[k])
                        IN  ScaleFactor(log_weights[k], v.vn, v.vd)]]

\* mutant of get_scale: the standard deviation is not floored
GetScaleNoFloor(log_weights, signals) ==
    IF Len(log_weights) # Len(signals)
    THEN [status |-> "AssertionError", value |-> <<>>]
    ELSE IF Len(signals) = 0
    THEN [status |-> "IndexError", value |-> <<>>]
    ELSE [status |-> "ok",
          value |-> [k \in 1..Len(signals) |->
                        LET v == VarianceOf(signals[k])
                        IN  [ScaleFactor(log_weights[k], v.vn, v.vd)
                                EXCEPT !.tiny = FALSE]]]

\* mutant of get_scale: one standard deviation, that of the first signal
GetScaleFirstStd(log_weights, signals) ==
    IF Len(log_weights) # Len(signals)
    THEN [status |-> "AssertionError", value |-> <<>>]
    ELSE IF Len(signals) = 0
    THEN [status |-> "IndexError", value |-> <<>>]
    ELSE [status |-> "ok",
          value |-> [k \in 1..Len(signals) |->
                        LET v == VarianceOf(signals[1])
                        IN  ScaleFactor(log_weights[k], v.vn, v.vd)]]

\* get_scale(log_weights, signals): [status, value], value[k] the k-th factor
get_scale(log_weights, signals) ==
    IF Len(log_weights) # Len(signals)
    THEN [status |-> "AssertionError", value |-> <<>>]
    ELSE IF Len(signals) = 0
    THEN [status |-> "IndexError", value |-> <<>>]    \* signals[0].dtype
    ELSE [status |-> "ok",
          value |-> [k \in 1..Len(signals) |->
                        LET v == VarianceOf(signals[k])
                        IN  ScaleFactor(log_weights[k], v.vn, v.vd)]]

(***************************************************************************)
(* Sparse placement: paderbox's SparseArray as (payload, onset, shape)     *)
(***************************************************************************)
\* Python values that are passed as target_shape
PyInt(n) == [py |-> "int", v |-> n]
PyTuple(t) == [py |-> "tuple", v |-> t]
\* Python's ==: a tuple never equals an int
PyEq(x, y) == x.py = y.py /\ x.v = y.v

\* SparseArray.from_array_and_onset(array, onset, shape): the shape of a
\* SparseArray is a tuple, also when it is given as an int
from_array_and_onset(array, onset, shape) ==
    [shape |-> IF shape.py = "int" THEN <<shape.v>> ELSE shape.v,
     onset |-> onset,
     seg |-> array]

\* one row of the materialised array: position t (Python index) holds
\* seg[t - onset] when that sample exists, the pad value 0 otherwise
DenseRow(row, onset, T) ==
    [t \in 1..T |->
        IF (t - 1) - onset >= 0 /\ (t - 1) - onset < Len(row)
        THEN row[(t - 1) - onset + 1]
        ELSE 0]

\* np.asarray(p): the dense array of a SparseArray
Dense(p) ==
    LET T == p.shape[Len(p.shape)]
        rows == RowsOf(p.seg)
    IN  [nd |-> Len(p.shape),
         a |-> IF Len(p.shape) = 1
               THEN DenseRow(rows[1], p.onset, T)
               ELSE [d \in 1..Len(rows) |-> DenseRow(rows[d], p.onset, T)],
         unit |-> p.seg.unit]

\* mutant of pad_sparse: the padded list is returned without the checks
PadSparseNoAssert(original_source, offset, target_shape) ==
    LET z == Zip(original_source, offset)
    IN  [status |-> "ok", where |-> "",
         value |-> [k \in 1..Len(z) |->
                      from_array_and_onset(z[k][1], z[k][2], target_shape)]]

\* pad_sparse(original_source, offset, target_shape): [status, where, value]
pad_sparse(original_source, offset, target_shape) ==
    LET z == Zip(original_source, offset)
        padded == [k \in 1..Len(z) |->
                      from_array_and_onset(z[k][1], z[k][2], target_shape)]
    IN  IF Len(padded) # Len(original_source)
        THEN [status |-> "AssertionError",
              where |-> "pad_sparse: len(padded) == len(original_source)",
              value |-> <<>>]
        ELSE IF \E k \in 1..Len(padded) :
                    ~PyEq(PyTuple(padded[k].shape), target_shape)
        THEN [status |-> "AssertionError",
              where |-> "pad_sparse: p.shape == target_shape",
              value |-> <<>>]
        ELSE [status |-> "ok", where |-> "", value |-> padded]

(***************************************************************************)
(* Mixtures: arrays whose elements are sums over several units.  An        *)
(* element is [sp |-> function from scale factors to coefficients,         *)
(* nz |-> coefficient of the array's noise factor].                        *)
(***************************************************************************)
LZero == [u \in {} |-> 0]
LCoef(f, u) == IF u \in DOMAIN f THEN f[u] ELSE 0
\* f + c * u, zero coefficients dropped
LAdd(f, u, c) ==
    [v \in {w \in (DOMAIN f) \cup {u} :
                LCoef(f, w) + (IF w = u THEN c ELSE 0) # 0} |->
        LCoef(f, v) + (IF v = u THEN c ELSE 0)]

NoNoise == [kind |-> "none"]
ZeroElt == [sp |-> LZero, nz |-> 0]

\* np.zeros(shape)
Zeros(shape) ==
    [nd |-> Len(shape),
     a |-> IF Len(shape) = 1
           THEN [t \in 1..shape[1] |-> ZeroElt]
           ELSE [d \in 1..shape[1] |-> [t \in 1..shape[2] |-> ZeroElt]],
     unit |-> NoNoise]

\* mix + p for a mixture and a SparseArray of one shape
AddSparse(mix, p) ==
    LET x == Dense(p)
        add(e, c) == [e EXCEPT !.sp = LAdd(e.sp, x.unit, c)]
    IN  [mix EXCEPT !.a =
            IF mix.nd = 1
            THEN [t \in 1..Len(mix.a) |-> add(mix.a[t], x.a[t])]
            ELSE [d \in 1..Len(mix.a) |->
                    [t \in 1..Len(mix.a[d]) |-> add(mix.a[d][t], x.a[d][t])]]]

\* sum(list, start)
RECURSIVE SumSparse(_, _)
SumSparse(list, start) ==
    IF Len(list) = 0 THEN start
    ELSE SumSparse(Tail(list), AddSparse(start, Head(list)))

(***************************************************************************)
(* Random generators: a generator is [seed, pos]; its k-th output is a     *)
(* function of the seed and of the number of outputs drawn before.         *)
(***************************************************************************)
\* the seed pb.utils.random_utils.str_to_random_generator derives from a string
SeedOf(id) == CASE id = "ex_a" -> 1 [] id = "ex_b" -> 2 [] OTHER -> 3

\* mutant of str_to_random_generator: the process-wide generator np.random
SharedGenerator(id) == np_random

str_to_random_generator(id) == [seed |-> SeedOf(id), pos |-> 0]

\* rng.uniform(low, high): low + (high - low) * r / 4 with r in 0..3, as the
\* rational n / d
Uniform(rng, low, high) ==
    LET r == (rng.seed + 3 * rng.pos) % 4
    IN  [value |-> [n |-> 4 * low + (high - low) * r, d |-> 4],
         rng |-> [rng EXCEPT !.pos = @ + 1]]

\* one standard-normal sample: a non-zero integer
NormalSample(seed, pos) ==
    LET r == (3 * seed + 5 * pos + pos * pos) % 4
    IN  IF r < 2 THEN r - 2 ELSE r - 1

\* rng.normal(size=shape)
Normal(rng, shape) ==
    LET n == IF Len(shape) = 1 THEN shape[1] ELSE shape[1] * shape[2]
        at(i) == NormalSample(rng.seed, rng.pos + i - 1)
    IN  [value |-> IF Len(shape) = 1
                   THEN A1([t \in 1..shape[1] |-> at(t)])
                   ELSE A2([d \in 1..shape[1] |->
                              [t \in 1..shape[2] |-> at((d - 1) * shape[2] + t)]]),
         rng |-> [rng EXCEPT !.pos = @ + n]]

(***************************************************************************)
(* get_white_noise_for_signal                                              *)
(***************************************************************************)
\* the units that occur in a mixture
UnitsOf(x) ==
    LET flat == Flatten(RowsOf(x))
    IN  UNION {DOMAIN flat[i].sp : i \in 1..Len(flat)}

\* the sum over every element e of time_signal of e * e, as the function
\* from pairs of units <<u, v>> to the coefficient of u * v
Gram(x) ==
    LET flat == Flatten(RowsOf(x))
    IN  [uv \in UnitsOf(x) \X UnitsOf(x) |->
            SumSeq([i \in 1..Len(flat) |->
                        LCoef(flat[i].sp, uv[1]) * LCoef(flat[i].sp, uv[2])])]

\* mutant of NoiseFactor: 10 ** (-snr / 20), the measured SNR left out
NoiseFactorUnmeasured(time_signal, noise_signal, snr) ==
    [kind |-> "noise", gram |-> (<<One, One>> :> 1), num |-> 1, den |-> 1,
     db |-> [n |-> -snr.n, d |-> snr.d]]

\* The factor 10 ** (-(snr - current_snr) / 20) as the record
\* [gram, num, den, db]: factor^2 = gram * num / den * 10^(db / 10), where
\* current_snr = 10 * log10(power_time_signal / power_noise_signal).
NoiseFactor(time_signal, noise_signal, snr) ==
    LET power_time_signal == [gram |-> Gram(time_signal), n |-> Size(time_signal)]
        power_noise_signal ==
            [n |-> SumSqSeq(Flatten(RowsOf(noise_signal))), d |-> Size(noise_signal)]
        \* power_time_signal / power_noise_signal
        ratio == [gram |-> power_time_signal.gram,
                  num |-> power_noise_signal.d,
                  den |-> power_time_signal.n * power_noise_signal.n]
    IN  [kind |-> "noise", gram |-> ratio.gram, num |-> ratio.num,
         den |-> ratio.den, db |-> [n |-> -snr.n, d |-> snr.d]]

\* get_white_noise_for_signal(time_signal, snr=snr, rng_state=rng_state):
\* [value |-> the noise, rng |-> the generator afterwards]
get_white_noise_for_signal(time_signal, snr, rng_state) ==
    LET drawn == Normal(rng_state, Shape(time_signal))
        noise_signal == drawn.value
        factor == NoiseFactor(time_signal, noise_signal, snr)
    IN  [value |-> Mul(noise_signal, factor), rng |-> drawn.rng]

(***************************************************************************)
(* add_microphone_noise                                                    *)
(***************************************************************************)
\* mutant of AddNoise: the statement mix += n is left out
AddNoiseOmitted(mix, n) == mix

\* mix += n
AddNoise(mix, n) ==
    [nd |-> mix.nd,
     a |-> IF mix.nd = 1
           THEN [t \in 1..Len(mix.a) |-> [mix.a[t] EXCEPT !.nz = @ + n.a[t]]]
           ELSE [d \in 1..Len(mix.a) |->
                   [t \in 1..Len(mix.a[d]) |->
                       [mix.a[d][t] EXCEPT !.nz = @ + n.a[d][t]]]],
     unit |-> n.unit]

\* mutant of DrawSnr: a snr attached to the example beforehand is kept
DrawSnrKeepAttached(ex, snr_range) ==
    IF HasKey(ex, "snr") THEN ex
    ELSE Put(ex, "snr",
             Uniform(str_to_random_generator(ex.example_id),
                     snr_range[1], snr_range[2]).value)

\* example[keys.SNR] = snr = rng.uniform(*snr_range), rng a generator made
\* from the example id
DrawSnr(ex, snr_range) ==
    LET rng == str_to_random_generator(ex.example_id)
    IN  Put(ex, "snr", Uniform(rng, snr_range[1], snr_range[2]).value)

\* the noise for the observation, drawn from a second generator made from
\* the example id; noise_image and observation are written
InjectNoise(ex) ==
    LET rng == str_to_random_generator(ex.example_id)
        mix == ex.audio_data.observation
        n == get_white_noise_for_signal(mix, ex.snr, rng).value
    IN  Put(ex, "audio_data",
            Put(Put(ex.audio_data, "noise_image", n),
                "observation", AddNoise(mix, n)))

\* add_microphone_noise(example, snr_range), np_random the process-wide
\* generator: [example |-> the example afterwards, np_random |-> its state]
add_microphone_noise(ex, snr_range, g) ==
    IF snr_range # None
    THEN [example |-> InjectNoise(DrawSnr(ex, snr_range)), np_random |-> g]
    ELSE [example |-> ex, np_random |-> g]

(***************************************************************************)
(* Convolution with the room impulse responses and the early/tail split    *)
(***************************************************************************)
\* full linear convolution of two 1-D sequences
Conv1(s, h) ==
    [n \in 1..(Len(s) + Len(h) - 1) |->
        SumSeq([i \in 1..Len(s) |->
                    IF n - i + 1 >= 1 /\ n - i + 1 <= Len(h)
                    THEN s[i] * h[n - i + 1]
                    ELSE 0])]

\* fftconvolve(s_[..., None, :], h_, axes=-1) for s_ of shape (T_k,) and h_
\* of shape (D, rir_length)
Fftconvolve(s_, h_) == A2([d \in 1..Len(h_) |-> Conv1(s_.a, h_[d])])

\* h[:, channel_slice, :] for a list of channel indices: [status, value]
ChannelSlice(h, channel_slice) ==
    IF channel_slice = None
    THEN [status |-> "ok", value |-> h]
    ELSE LET cs == channel_slice[1]
             D == Shape(h)[2]
         IN  IF \E j \in 1..Len(cs) : cs[j] < 0 \/ cs[j] >= D
             THEN [status |-> "IndexError", value |-> h]
             ELSE [status |-> "ok",
                   value |-> A3([k \in 1..Len(h.a) |->
                                   [j \in 1..Len(cs) |-> h.a[k][cs[j] + 1]]])]

\* row[stop:] = 0
MaskFrom(row, stop) ==
    [j \in 1..Len(row) |->
        IF j - 1 >= SliceIndex(stop, Len(row)) THEN 0 ELSE row[j]]

\* mutant of MaskUpTo: the boundary sample itself is zeroed as well
MaskUpToInclusive(row, stop) ==
    [j \in 1..Len(row) |->
        IF j - 1 <= SliceIndex(stop, Len(row)) THEN 0 ELSE row[j]]

\* row[:stop] = 0
MaskUpTo(row, stop) ==
    [j \in 1..Len(row) |->
        IF j - 1 < SliceIndex(stop, Len(row)) THEN 0 ELSE row[j]]

\* h_early: h.copy() with h_early[i, ..., rir_stop_sample[i]:] = 0
EarlyRir(h, rir_stop_sample) ==
    A3([i \in 1..Len(h.a) |->
          [d \in 1..Len(h.a[i]) |-> MaskFrom(h.a[i][d], rir_stop_sample[i])]])

\* h_tail: h.copy() with h_tail[i, ..., :rir_stop_sample[i]] = 0
TailRir(h, rir_stop_sample) ==
    A3([i \in 1..Len(h.a) |->
          [d \in 1..Len(h.a[i]) |-> MaskUpTo(h.a[i][d], rir_stop_sample[i])]])

\* mutant of RirOffset: the onset is added instead of subtracted
RirOffsetAdded(offset, rir_start_sample) ==
    LET z == Zip(offset, rir_start_sample)
    IN  [k \in 1..Len(z) |-> z[k][1] + z[k][2]]

\* rir_offset = [offset_ - rir_start_sample_ for ... in zip(...)]
RirOffset(offset, rir_start_sample) ==
    LET z == Zip(offset, rir_start_sample)
    IN  [k \in 1..Len(z) |-> z[k][1] - z[k][2]]

\* mutant of get_convolved_signals: the shapes and lengths are not checked
ConvolvedNoAssert(s, h, num_samples, D, rir_length, rir_offset, K) ==
    LET z == Zip(s, h.a)
    IN  [status |-> "ok", where |-> "",
         value |-> [k \in 1..Len(z) |-> Fftconvolve(z[k][1], z[k][2])]]

\* get_convolved_signals(h) with the variables of the enclosing call it
\* reads: s, example['num_samples']['original_source'], D, rir_length,
\* rir_offset and K.  [status, where, value]
get_convolved_signals(s, h, num_samples, D, rir_length, rir_offset, K) ==
    IF Len(s) # Len(h.a)
    THEN [status |-> "AssertionError",
          where |-> "get_convolved_signals: len(s) == len(h)", value |-> <<>>]
    ELSE LET x == [k \in 1..Len(s) |-> Fftconvolve(s[k], h.a[k])]
             z == Zip(x, num_samples)
         IN  IF Len(x) # Len(num_samples)
             THEN [status |-> "AssertionError",
                   where |-> "get_convolved_signals: len(x) == len(num_samples)",
                   value |-> <<>>]
             ELSE IF \E k \in 1..Len(z) :
                        Shape(z[k][1]) # <<D, z[k][2] + rir_length - 1>>
             THEN [status |-> "AssertionError",
                   where |-> "get_convolved_signals: x_.shape",
                   value |-> <<>>]
             ELSE IF ~(Len(x) = Len(rir_offset) /\ Len(rir_offset) = K)
             THEN [status |-> "AssertionError",
                   where |-> "get_convolved_signals: len(x) == len(rir_offset) == K",
                   value |-> <<>>]
             ELSE [status |-> "ok", where |-> "", value |-> x]

\* apply_scale(x)
apply_scale(x, scale) ==
    LET z == Zip(x, scale)
    IN  [k \in 1..Len(z) |-> Mul(z[k][1], z[k][2])]

(***************************************************************************)
(* The scenario builders.  A call ends as                                  *)
(* [example |-> the example afterwards (it is modified in place, also when *)
(*              the call raises),                                          *)
(*  outcome |-> "returned" or the exception, where |-> the failing line,   *)
(*  np_random |-> the process-wide generator afterwards]                   *)
(***************************************************************************)
Raised(ex, status, where, g) ==
    [example |-> ex, outcome |-> status, where |-> where, np_random |-> g]

Returned(r) ==
    [example |-> r.example, outcome |-> "returned", where |-> "",
     np_random |-> r.np_random]

\* audio_data[key] = value, audio_data being example['audio_data']
SetAudio(ex, key, value) == Put(ex, "audio_data", Put(ex.audio_data, key, value))

\* [s_ - np.mean(s_) for s_ in s] if normalize_sources, s otherwise
Normalized(s, normalize_sources) ==
    IF normalize_sources THEN [k \in 1..Len(s) |-> MeanNormalize(s[k])] ELSE s

(***************************************************************************)
(* anechoic_scenario_map_fn, statement by statement, last statement first  *)
(***************************************************************************)
\* mix = sum(speech_source, np.zeros(T)); the three writes; the noise
AnechoicMix(ex, p, g, T, speech_source) ==
    Returned(add_microphone_noise(
        SetAudio(SetAudio(SetAudio(ex, "observation",
                                   SumSparse(speech_source, Zeros(<<T>>))),
                          "speech_source", speech_source),
                 "speech_image", speech_source),
        p.snr_range, g))

\* speech_source = pad_sparse(s, offset, target_shape=T)
AnechoicPlaced(ex, p, g, T, ps) ==
    IF ps.status # "ok" THEN Raised(ex, ps.status, ps.where, g)
    ELSE AnechoicMix(ex, p, g, T, ps.value)

\* scale = get_scale(...); s = [s_ * scale_ for ...]
AnechoicScaled(ex, p, g, s, sc) ==
    IF sc.status # "ok" THEN Raised(ex, sc.status, "get_scale", g)
    ELSE AnechoicPlaced(ex, p, g, ex.num_samples.observation,
                        pad_sparse(apply_scale(s, sc.value),
                                   ex.offset.original_source,
                                   PyInt(ex.num_samples.observation)))

AnechoicNormalized(ex, p, g, s) ==
    AnechoicScaled(ex, p, g, s, get_scale(ex.log_weights, s))

\* anechoic_scenario_map_fn(example, snr_range=..., normalize_sources=...)
anechoic_scenario_map_fn(ex, p, g) ==
    AnechoicNormalized(ex, p, g,
        Normalized(ex.audio_data.original_source, p.normalize_sources))

(***************************************************************************)
(* multi_channel_scenario_map_fn.  loc holds its local variables h, D, T,  *)
(* K, s, rir_length, rir_stop_sample, rir_offset, num_samples and scale;   *)
(* a stage ends as [example, status, where].                               *)
(***************************************************************************)
StageOk(ex) == [example |-> ex, status |-> "ok", where |-> ""]
StageFailed(ex, r) == [example |-> ex, status |-> r.status, where |-> r.where]

Convolved(loc, h) ==
    get_convolved_signals(loc.s, h, loc.num_samples, loc.D, loc.rir_length,
                          loc.rir_offset, loc.K)

Placed(loc, x) == pad_sparse(x, loc.rir_offset, PyTuple(<<loc.D, loc.T>>))

EarlyPlaced(ex, p, h_early, ps) ==
    IF ps.status # "ok" THEN StageFailed(ex, ps)
    ELSE IF p.details
    THEN StageOk(SetAudio(SetAudio(ex, "speech_reverberation_early", ps.value),
                          "rir_early", h_early))
    ELSE StageOk(SetAudio(ex, "speech_reverberation_early", ps.value))

EarlyScaled(ex, p, loc, h_early) ==
    EarlyPlaced(ex, p, h_early,
                Placed(loc, ex.audio_data.original_reverberation_early))

\* mutant of EarlyConvolved: the early part gets a scale of its own,
\* computed from the early convolution
EarlyConvolvedOwnScale(ex, p, loc, h_early, cv) ==
    IF cv.status # "ok" THEN StageFailed(ex, cv)
    ELSE EarlyScaled(SetAudio(ex, "original_reverberation_early",
                              apply_scale(cv.value,
                                          get_scale(ex.log_weights, cv.value).value)),
                     p, loc, h_early)

EarlyConvolved(ex, p, loc, h_early, cv) ==
    IF cv.status # "ok" THEN StageFailed(ex, cv)
    ELSE EarlyScaled(SetAudio(ex, "original_reverberation_early",
                              apply_scale(cv.value, loc.scale)),
                     p, loc, h_early)

EarlyMasked(ex, p, loc, h_early) ==
    EarlyConvolved(ex, p, loc, h_early, Convolved(loc, h_early))

\* if add_speech_reverberation_early: ...
StageEarly(ex, p, loc) ==
    IF ~p.add_speech_reverberation_early THEN StageOk(ex)
    ELSE EarlyMasked(ex, p, loc, EarlyRir(loc.h, loc.rir_stop_sample))

TailPlaced(ex, p, h_tail, ps) ==
    IF ps.status # "ok" THEN StageFailed(ex, ps)
    ELSE IF p.details
    THEN StageOk(SetAudio(SetAudio(ex, "speech_reverberation_tail", ps.value),
                          "rir_tail", h_tail))
    ELSE StageOk(SetAudio(ex, "speech_reverberation_tail", ps.value))

TailScaled(ex, p, loc, h_tail) ==
    TailPlaced(ex, p, h_tail,
               Placed(loc, ex.audio_data.original_reverberation_tail))

TailConvolved(ex, p, loc, h_tail, cv) ==
    IF cv.status # "ok" THEN StageFailed(ex, cv)
    ELSE TailScaled(SetAudio(ex, "original_reverberation_tail",
                             apply_scale(cv.value, loc.scale)),
                    p, loc, h_tail)

TailMasked(ex, p, loc, h_tail) ==
    TailConvolved(ex, p, loc, h_tail, Convolved(loc, h_tail))

\* if add_speech_reverberation_tail: ...
StageTail(ex, p, loc) ==
    IF ~p.add_speech_reverberation_tail THEN StageOk(ex)
    ELSE TailMasked(ex, p, loc, TailRir(loc.h, loc.rir_stop_sample))

\* mutant of McMix: snr_range=None falls back to the default range (20, 30)
McMixDefaultRange(r, p, g, loc) ==
    IF r.status # "ok" THEN Raised(r.example, r.status, r.where, g)
    ELSE Returned(add_microphone_noise(
            SetAudio(r.example, "observation",
                     SumSparse(r.example.audio_data.speech_image,
                               Zeros(<<loc.D, loc.T>>))),
            IF p.snr_range = None THEN <<20, 30>> ELSE p.snr_range, g))

\* clean_mix = sum(audio_data['speech_image'], np.zeros((D, T))); the noise
McMix(r, p, g, loc) ==
    IF r.status # "ok" THEN Raised(r.example, r.status, r.where, g)
    ELSE Returned(add_microphone_noise(
            SetAudio(r.example, "observation",
                     SumSparse(r.example.audio_data.speech_image,
                               Zeros(<<loc.D, loc.T>>))),
            p.snr_range, g))

\* mutant of McTail: h_tail = h without the copy, so that the tail stage
\* masks the response the early stage has masked already
McTailAliased(r, p, g, loc) ==
    IF r.status # "ok" THEN Raised(r.example, r.status, r.where, g)
    ELSE McMix(StageTail(r.example, p,
                         IF p.add_speech_reverberation_early
                         THEN Put(loc, "h", EarlyRir(loc.h, loc.rir_stop_sample))
                         ELSE loc),
               p, g, loc)

McTail(r, p, g, loc) ==
    IF r.status # "ok" THEN Raised(r.example, r.status, r.where, g)
    ELSE McMix(StageTail(r.example, p, loc), p, g, loc)

\* example['num_samples']['original_reverberated'] = [a.shape[-1] for ...]
\* example['offset']['original_reverberated'] = rir_offset
Recorded(ex, loc) ==
    [ex EXCEPT
        !.num_samples = Put(@, "original_reverberated",
            [k \in 1..Len(ex.audio_data.original_reverberated) |->
                Shape(ex.audio_data.original_reverberated[k])[2]]),
        !.offset = Put(@, "original_reverberated", loc.rir_offset)]

\* audio_data['speech_image'] = pad_sparse(..., rir_offset, (D, T))
McImage(ex, p, g, loc, pi) ==
    IF pi.status # "ok" THEN Raised(ex, pi.status, pi.where, g)
    ELSE McTail(StageEarly(Recorded(SetAudio(ex, "speech_image", pi.value), loc),
                           p, loc),
                p, g, loc)

McScaled(ex, p, g, loc) ==
    McImage(ex, p, g, loc, Placed(loc, ex.audio_data.original_reverberated))

\* scale = get_scale(...); audio_data['original_reverberated'] = apply_scale(...)
McScale(ex, p, g, loc, sc) ==
    IF sc.status # "ok" THEN Raised(ex, sc.status, "get_scale", g)
    ELSE McScaled(SetAudio(ex, "original_reverberated",
                           apply_scale(ex.audio_data.original_reverberated,
                                       sc.value)),
                  p, g, Put(loc, "scale", sc.value))

\* audio_data['original_reverberated'] = get_convolved_signals(h)
McConvolved(ex, p, g, loc, cv) ==
    IF cv.status # "ok" THEN Raised(ex, cv.status, cv.where, g)
    ELSE McScale(SetAudio(ex, "original_reverberated", cv.value), p, g, loc,
                 get_scale(ex.log_weights, cv.value))

\* audio_data['speech_source'] = pad_sparse(..., target_shape=(T,))
McSource(ex, p, g, loc, ps) ==
    IF ps.status # "ok" THEN Raised(ex, ps.status, ps.where, g)
    ELSE McConvolved(SetAudio(ex, "speech_source", ps.value), p, g, loc,
                     Convolved(loc, loc.h))

McLocals(ex, p, g, loc) ==
    McSource(ex, p, g, loc,
             pad_sparse(ex.audio_data.original_source,
                        ex.offset.original_source, PyTuple(<<loc.T>>)))

\* the local variables set between the channel selection and the placement
Locals(ex, p, h, rir_start_sample) ==
    [h |-> h, D |-> Shape(h)[2], rir_length |-> Shape(h)[3],
     rir_stop_sample |-> [k \in 1..Len(rir_start_sample) |->
                             rir_start_sample[k] + p.early_rir_samples],
     rir_offset |-> RirOffset(ex.offset.original_source, rir_start_sample),
     K |-> Len(ex.speaker_id),
     T |-> ex.num_samples.observation,
     s |-> Normalized(ex.audio_data.original_source, p.normalize_sources),
     num_samples |-> ex.num_samples.original_source]

\* mutant of McSliced: the onsets are estimated on the selected channels
McSlicedOnsetsAfter(ex, p, g, rir_start_sample, sl) ==
    IF sl.status # "ok" THEN Raised(ex, sl.status, "h[:, channel_slice, :]", g)
    ELSE McLocals(ex, p, g,
            Locals(ex, p, sl.value,
                   [k \in 1..Len(sl.value.a) |->
                       get_rir_start_sample(A2(sl.value.a[k]),
                                            DefaultLevelRatio).value]))

\* if channel_slice is not None: h = h[:, channel_slice, :]
McSliced(ex, p, g, rir_start_sample, sl) ==
    IF sl.status # "ok" THEN Raised(ex, sl.status, "h[:, channel_slice, :]", g)
    ELSE McLocals(ex, p, g, Locals(ex, p, sl.value, rir_start_sample))

\* rir_start_sample = np.array([get_rir_start_sample(h_k) for h_k in h])
McOnsets(ex, p, g, starts) ==
    IF \E k \in 1..Len(starts) : starts[k].status # "ok"
    THEN Raised(ex, "AssertionError", "get_rir_start_sample", g)
    ELSE McSliced(ex, p, g, [k \in 1..Len(starts) |-> starts[k].value],
                  ChannelSlice(ex.audio_data.rir, p.channel_slice))

\* mutant of multi_channel_scenario_map_fn: speech_source is placed before
\* the responses are fetched
McSourceBeforeRir(ex, p, g) ==
    IF ~HasKey(ex.audio_data, "rir")
    THEN Raised(SetAudio(ex, "speech_source",
                         pad_sparse(ex.audio_data.original_source,
                                    ex.offset.original_source,
                                    PyTuple(<<ex.num_samples.observation>>)).value),
                "KeyError", "audio_data['rir']", g)
    ELSE McOnsets(ex, p, g,
            [k \in 1..Len(ex.audio_data.rir.a) |->
                get_rir_start_sample(A2(ex.audio_data.rir.a[k]),
                                     DefaultLevelRatio)])

\* multi_channel_scenario_map_fn(example, snr_range=..., ...)
multi_channel_scenario_map_fn(ex, p, g) ==
    IF ~HasKey(ex.audio_data, "rir")
    THEN Raised(ex, "KeyError", "audio_data['rir']", g)
    ELSE McOnsets(ex, p, g,
            [k \in 1..Len(ex.audio_data.rir.a) |->
                get_rir_start_sample(A2(ex.audio_data.rir.a[k]),
                                     DefaultLevelRatio)])

(***************************************************************************)
(* Specification SpecRir: get_rir_start_sample applied to drawn inputs     *)
(***************************************************************************)
SeqsOfLen(S, n) == [1..n -> S]

\* the array of the doctest, np.array([0, 0, 1, 0.5, 0.1]), in units of 0.1
DocTestRir == A1(<<0, 0, 10, 5, 1>>)

Rirs1D ==
    {A1(s) : s \in UNION {SeqsOfLen(-MaxRirAmp..MaxRirAmp, n) : n \in 1..MaxRirLen}}

\* multi-channel responses: every row over a three-letter alphabet
RirRowVals == {0, 1, -MaxRirAmp}
Rirs2D ==
    {A2(m) : m \in UNION {SeqsOfLen(SeqsOfLen(RirRowVals, n), d) :
                            n \in 1..(MaxRirLen - 1), d \in 1..MaxChannels}}

\* responses around the bound on the leading dimension
RirsWide ==
    {A2([i \in 1..d |-> row]) :
        d \in (MaxLeadingDim - 1)..(MaxLeadingDim + 1),
        row \in {<<0, 1>>, <<MaxRirAmp, 1>>}}

LevelRatios ==
    {[n |-> -1, d |-> 2], [n |-> 0, d |-> 1], DefaultLevelRatio,
     [n |-> 1, d |-> 2], [n |-> 9, d |-> 10], [n |-> 1, d |-> 1],
     [n |-> 3, d |-> 2]}

InitRir ==
    /\ pc = "ready"
    /\ example = None
    /\ given = None
    /\ \/ params \in [h : Rirs1D \cup {DocTestRir}, level_ratio : LevelRatios]
       \/ params \in [h : Rirs2D \cup RirsWide, level_ratio : LevelRatios]
    /\ outcome = "none"
    /\ ret = None
    /\ np_random = 0
    /\ noise_log = {}

RirCall ==
    /\ pc = "ready"
    /\ LET r == get_rir_start_sample(params.h, params.level_ratio)
       IN  /\ outcome' = (IF r.status = "ok" THEN "returned" ELSE r.status)
           /\ ret' = r.value
    /\ pc' = "done"
    /\ UNCHANGED <<example, given, params, np_random, noise_log>>

NextRir == RirCall

SpecRir == InitRir /\ [][NextRir]_vars

IsZero(h) == \A i \in 1..Len(h) : h[i] = 0
RirDone == pc = "done" /\ outcome = "returned"

\* C2: for a 1-D response that is not all zero and a level_ratio < 1 the
\* result is the smallest (Python) index i with |h[i]| > level_ratio * max|h|,
\* it is never beyond the first occurrence of the peak, and the doctest
\* array with the default level_ratio gives 2.
C2_OnsetIsFirstAboveThreshold ==
    /\ (pc = "done" /\ params.h.nd = 1 /\ ~IsZero(params.h.a)
            /\ params.level_ratio.n < params.level_ratio.d)
        => LET h == params.h.a
               lr == params.level_ratio
               peak == CHOOSE m \in {Abs(h[i]) : i \in 1..Len(h)} :
                            \A i \in 1..Len(h) : Abs(h[i]) <= m
               above(i) == Abs(h[i]) * lr.d > lr.n * peak
           IN  /\ outcome = "returned"
               /\ ret + 1 \in 1..Len(h)
               /\ above(ret + 1)
               /\ \A j \in 1..ret : ~above(j)
               /\ \A i \in 1..Len(h) : Abs(h[i]) = peak => ret + 1 <= i
    /\ (pc = "done" /\ params.h = DocTestRir
            /\ params.level_ratio = DefaultLevelRatio)
        => (outcome = "returned" /\ ret = 2)

\* a 1-D call whose onset lies strictly before the peak and after index 0
C2_Witness ==
    /\ RirDone
    /\ params.h.nd = 1
    /\ params.level_ratio = DefaultLevelRatio
    /\ ~IsZero(params.h.a)
    /\ ret = 1
    /\ Len(params.h.a) = 3
    /\ Abs(params.h.a[3]) > Abs(params.h.a[2])

\* C3: for a multi-channel response with fewer than 20 channels the result
\* is the minimum of the 1-D onsets of its channels, hence at most the onset
\* of every channel; a leading dimension of 20 or more raises AssertionError.
C3_MinOverChannels ==
    (pc = "done" /\ params.h.nd = 2 /\ params.level_ratio.n < params.level_ratio.d)
        => LET rows == params.h.a
               lr == params.level_ratio
               onset(i) == RirStart1D(rows[i], lr)
           IN  IF Len(rows) < 20
               THEN /\ outcome = "returned"
                    /\ \A i \in 1..Len(rows) : ret <= onset(i)
                    /\ \E i \in 1..Len(rows) : ret = onset(i)
               ELSE outcome = "AssertionError"

\* two channels with different onsets: the later channel comes first
C3_Witness ==
    /\ RirDone
    /\ params.h.nd = 2
    /\ Len(params.h.a) = 2
    /\ params.level_ratio = DefaultLevelRatio
    /\ RirStart1D(params.h.a[1], params.level_ratio) = 1
    /\ ret = 0

\* a response with 20 channels is refused
C3_WitnessWide ==
    /\ pc = "done"
    /\ params.h.nd = 2
    /\ Len(params.h.a) = 20
    /\ outcome = "AssertionError"


(***************************************************************************)
(* Specification SpecNoise: get_white_noise_for_signal applied to drawn    *)
(* mixtures, target SNRs and generators                                    *)
(***************************************************************************)
MaxMixLen == 3        \* longest mixture drawn
MaxMixAmp == 2        \* largest |sample| of a drawn mixture

\* an array of plain numbers as a mixture
ToMix(x) ==
    LET elt(c) == [sp |-> LAdd(LZero, x.unit, c), nz |-> 0]
    IN  [nd |-> x.nd,
         a |-> IF x.nd = 1
               THEN [t \in 1..Len(x.a) |-> elt(x.a[t])]
               ELSE [d \in 1..Len(x.a) |-> [t \in 1..Len(x.a[d]) |-> elt(x.a[d][t])]],
         unit |-> NoNoise]

Mixtures1D ==
    {ToMix(A1(s)) :
        s \in UNION {SeqsOfLen(-MaxMixAmp..MaxMixAmp, n) : n \in 1..MaxMixLen}}
Mixtures2D ==
    {ToMix(A2(m)) : m \in SeqsOfLen(SeqsOfLen({-1, 0, MaxMixAmp}, 2), 2)}

\* target SNRs in dB: -10, 0, 12.5, 20 and 30
TargetSnrs ==
    {[n |-> -10, d |-> 1], [n |-> 0, d |-> 1], [n |-> 25, d |-> 2],
     [n |-> 20, d |-> 1], [n |-> 30, d |-> 1]}

InitNoise ==
    /\ pc = "ready"
    /\ example = None
    /\ given = None
    /\ \E sigs \in {Mixtures1D, Mixtures2D} :
           params \in [time_signal : sigs,
                       snr : TargetSnrs,
                       rng_state : {str_to_random_generator(id) :
                                        id \in {"ex_a", "ex_b"}}]
    /\ outcome = "none"
    /\ ret = None
    /\ np_random = 0
    /\ noise_log = {}

NoiseCall ==
    /\ pc = "ready"
    /\ ret' = get_white_noise_for_signal(
                  params.time_signal, params.snr, params.rng_state).value
    /\ outcome' = "returned"
    /\ pc' = "done"
    /\ UNCHANGED <<example, given, params, np_random, noise_log>>

NextNoise == NoiseCall

SpecNoise == InitNoise /\ [][NextNoise]_vars

\* the plain numbers of a mixture over the unit One
PlainOf(x) ==
    LET flat == Flatten(RowsOf(x))
    IN  [i \in 1..Len(flat) |-> LCoef(flat[i].sp, One)]

\* C8: for a mixture of non-zero power the returned noise has the shape of
\* the mixture, and mixture_power / noise_power = 10^(snr / 10), that is
\* 10 * log10(mixture_power / noise_power) equals the target snr: the draw
\* is rescaled by 10^(-(snr - measured_snr) / 20).
C8_NoiseMatchesTargetSnr ==
    (pc = "done" /\ SumSqSeq(PlainOf(params.time_signal)) # 0)
        => LET mix == PlainOf(params.time_signal)
               draw == Flatten(RowsOf(ret))
               f == ret.unit
               \* factor^2 = fn / fd * 10^(f.db / 10)
               fn == LCoef(f.gram, <<One, One>>) * f.num
               fd == f.den
               \* noise_power = factor^2 * mean(draw^2) = pn / pd * 10^(f.db / 10)
               pn == fn * SumSqSeq(draw)
               pd == fd * Len(draw)
               \* mixture_power = mn / md
               mn == SumSqSeq(mix)
               md == Len(mix)
           IN  /\ Shape(ret) = Shape(params.time_signal)
               /\ fd # 0 /\ pn # 0
               \* mixture_power / noise_power = 1 * 10^(-f.db / 10)
               /\ mn * pd = md * pn
               /\ -f.db.n * params.snr.d = params.snr.n * f.db.d

\* a two-sample mixture whose unscaled draw has another power than the
\* mixture, with a target of 12.5 dB
C8_Witness ==
    /\ pc = "done"
    /\ params.time_signal.nd = 1
    /\ Len(params.time_signal.a) = 2
    /\ SumSqSeq(PlainOf(params.time_signal)) = 8
    /\ SumSqSeq(Flatten(RowsOf(ret))) # 8
    /\ params.snr = [n |-> 25, d |-> 2]


(***************************************************************************)
(* Specification Spec: one call of a scenario builder on a drawn example   *)
(***************************************************************************)
\* early_rir_samples: int = int(8000 * 0.05)
DefaultEarly == 400

\* source k of length n: a signal with the integral mean k + 1
SigOf(n, k) == A1([i \in 1..n |-> IF i = 1 THEN n + k ELSE k])

\* a response of shape (D, L) whose channel d starts at Python index
\* min(p + d - 1, L - 1) with the peak MaxRirAmp, followed by ones
RirOf(D, L, p) ==
    [d \in 1..D |->
        [i \in 1..L |->
            LET pd == Min2(p + d - 1, L - 1)
            IN  IF i - 1 < pd THEN 0 ELSE IF i - 1 = pd THEN MaxRirAmp ELSE 1]]

\* the example of K sources with signal lengths n[k], offsets off[k],
\* observation length T and responses of shape (D, L) with onsets p[k]
MakeExample(id, n, off, T, D, L, p) ==
    LET K == Len(n)
    IN  [example_id |-> id,
         speaker_id |-> [k \in 1..K |-> k],
         num_samples |-> [observation |-> T, original_source |-> n],
         offset |-> [original_source |-> off],
         log_weights |-> [k \in 1..K |-> 10 * (k - 1)],
         audio_data |->
            [original_source |-> [k \in 1..K |-> SigOf(n[k], k)],
             rir |-> A3([k \in 1..K |-> RirOf(D, L, p[k])])]]

\* examples that vary the placement: lengths, offsets, observation length
ExamplesPlacement ==
    UNION {{MakeExample(IF T = MaxT THEN "ex_a" ELSE "ex_b", n, off, T,
                        MaxChannels, 2, [k \in 1..K |-> (k - 1) % 2]) :
                n \in SeqsOfLen({1, MaxSrcLen}, K),
                off \in SeqsOfLen({0, 1, MaxOffset}, K),
                T \in (MaxT - 1)..MaxT} : K \in 1..MaxK}

\* examples that vary the responses: channels, length, onsets
ExamplesRir ==
    UNION {{MakeExample("ex_a", [k \in 1..K |-> 2], [k \in 1..K |-> k], MaxT,
                        D, L, p) :
                D \in {1, MaxChannels}, p \in SeqsOfLen(0..(L - 1), K)} :
           K \in 1..MaxK, L \in 1..MaxRirLen}

\* a valid example of two sources, and examples that break one rule each
BaseExample == MakeExample("ex_a", <<2, 2>>, <<0, 1>>, MaxT, 2, 2, <<0, 1>>)
ThirdSignal == SigOf(2, 3)
ExamplesBad ==
    {[BaseExample EXCEPT !.audio_data =
         [original_source |-> BaseExample.audio_data.original_source]],
     [BaseExample EXCEPT !.audio_data.rir = A3(<<RirOf(2, 2, 0)>>)],
     [BaseExample EXCEPT !.audio_data.rir =
         A3(<<RirOf(2, 2, 0), RirOf(2, 2, 1), RirOf(2, 2, 0)>>)],
     [BaseExample EXCEPT !.audio_data.original_source = <<SigOf(2, 1)>>],
     [BaseExample EXCEPT !.audio_data.original_source =
         <<SigOf(2, 1), SigOf(2, 2), ThirdSignal>>],
     [BaseExample EXCEPT !.offset.original_source = <<0>>],
     [BaseExample EXCEPT !.offset.original_source = <<0, 1, 2>>],
     [BaseExample EXCEPT !.log_weights = <<0>>],
     [BaseExample EXCEPT !.log_weights = <<0, 10, 20>>],
     [BaseExample EXCEPT !.speaker_id = <<1>>],
     [BaseExample EXCEPT !.speaker_id = <<1, 2, 3>>],
     [BaseExample EXCEPT !.num_samples.original_source = <<2, 3>>],
     [BaseExample EXCEPT !.num_samples.original_source = <<2>>],
     [BaseExample EXCEPT !.num_samples.original_source = <<2, 2, 2>>]}

SnrRanges == {None, <<20, 30>>}

\* keyword arguments of anechoic_scenario_map_fn
ParamsAnechoic ==
    [fn : {"anechoic_scenario_map_fn"}, snr_range : SnrRanges,
     normalize_sources : BOOLEAN]

\* keyword arguments of multi_channel_scenario_map_fn: with and without
\* noise and normalisation, both stages, the default split
ParamsNoise ==
    [fn : {"multi_channel_scenario_map_fn"}, snr_range : SnrRanges,
     normalize_sources : BOOLEAN,
     add_speech_reverberation_early : {TRUE},
     add_speech_reverberation_tail : {TRUE},
     early_rir_samples : {DefaultEarly}, details : {FALSE},
     channel_slice : {None}]

\* ... every combination of the two stages
ParamsStages ==
    [fn : {"multi_channel_scenario_map_fn"}, snr_range : {None},
     normalize_sources : {FALSE},
     add_speech_reverberation_early : BOOLEAN,
     add_speech_reverberation_tail : BOOLEAN,
     early_rir_samples : {DefaultEarly}, details : {FALSE},
     channel_slice : {None}]

\* channel_slice as a list of channel indices
ChannelSlices == {None, <<<<0>>>>, <<<<1>>>>, <<<<1, 0>>>>}

\* ... and every split boundary and channel selection with both stages
ParamsSplit ==
    [fn : {"multi_channel_scenario_map_fn"}, snr_range : {None},
     normalize_sources : {FALSE},
     add_speech_reverberation_early : {TRUE},
     add_speech_reverberation_tail : {TRUE},
     early_rir_samples : (-MaxEarly)..MaxEarly, details : {TRUE},
     channel_slice : ChannelSlices]

Init ==
    /\ pc = "ready"
    /\ \/ example \in ExamplesPlacement /\ params \in ParamsAnechoic
       \/ example \in ExamplesPlacement /\ params \in ParamsNoise \cup ParamsStages
       \/ example \in ExamplesRir /\ params \in ParamsNoise \cup ParamsSplit
       \/ example \in ExamplesBad /\ params \in ParamsAnechoic
       \/ example \in ExamplesBad /\ params \in ParamsNoise
    /\ given = example
    /\ outcome = "none"
    /\ ret = None
    /\ np_random = [seed |-> 0, pos |-> 0]
    /\ noise_log = {}

AnechoicCall ==
    /\ pc = "ready"
    /\ params.fn = "anechoic_scenario_map_fn"
    /\ LET r == anechoic_scenario_map_fn(example, params, np_random)
       IN  /\ example' = r.example
           /\ outcome' = r.outcome
           /\ ret' = r.where
           /\ np_random' = r.np_random
    /\ pc' = "done"
    /\ UNCHANGED <<given, params, noise_log>>

MultiChannelCall ==
    /\ pc = "ready"
    /\ params.fn = "multi_channel_scenario_map_fn"
    /\ LET r == multi_channel_scenario_map_fn(example, params, np_random)
       IN  /\ example' = r.example
           /\ outcome' = r.outcome
           /\ ret' = r.where
           /\ np_random' = r.np_random
    /\ pc' = "done"
    /\ UNCHANGED <<given, params, noise_log>>

Next == AnechoicCall \/ MultiChannelCall

Spec == Init /\ [][Next]_vars


(***************************************************************************)
(* Claims about the scenario builders                                      *)
(***************************************************************************)
Anechoic == params.fn = "anechoic_scenario_map_fn"
MultiChannel == params.fn = "multi_channel_scenario_map_fn"
Done == pc = "done"
BuilderReturned == pc = "done" /\ outcome = "returned"

\* an example whose per-source fields all describe the same K >= 1 sources
ValidExample(ex, fn) ==
    LET K == Len(ex.speaker_id)
        s == ex.audio_data.original_source
    IN  /\ K >= 1
        /\ Len(s) = K
        /\ Len(ex.offset.original_source) = K
        /\ Len(ex.log_weights) = K
        /\ ex.num_samples.original_source = [k \in 1..K |-> Len(s[k].a)]
        /\ \A k \in 1..K : ex.offset.original_source[k] >= 0
        /\ fn = "multi_channel_scenario_map_fn" =>
              /\ HasKey(ex.audio_data, "rir")
              /\ Len(ex.audio_data.rir.a) = K

ShapeAssertion == "pad_sparse: p.shape == target_shape"

\* every buffer stored under key has K entries of the given shape
AllOfShape(key, K, shape) ==
    HasKey(example.audio_data, key) =>
        /\ Len(example.audio_data[key]) = K
        /\ \A k \in 1..K : example.audio_data[key][k].shape = shape

\* the number of channels after channel_slice
ChannelsOf(ex, p) ==
    IF p.channel_slice = None THEN Shape(ex.audio_data.rir)[2]
    ELSE Len(p.channel_slice[1])

\* C1: a builder call on a valid example never fails pad_sparse's shape
\* assertion, and every placed buffer it stores has the target shape: (T,)
\* for the anechoic builder's speech_source and speech_image, (T,) for the
\* reverberant builder's speech_source and (D, T) for its speech_image,
\* speech_reverberation_early and speech_reverberation_tail.
C1_PlacedBuffersHaveTargetShape ==
    (Done /\ ValidExample(given, params.fn)) =>
        LET K == Len(given.speaker_id)
            T == given.num_samples.observation
        IN  /\ ret # ShapeAssertion
            /\ AllOfShape("speech_source", K, <<T>>)
            /\ Anechoic => AllOfShape("speech_image", K, <<T>>)
            /\ MultiChannel =>
                  LET D == ChannelsOf(given, params)
                  IN  /\ AllOfShape("speech_image", K, <<D, T>>)
                      /\ AllOfShape("speech_reverberation_early", K, <<D, T>>)
                      /\ AllOfShape("speech_reverberation_tail", K, <<D, T>>)

\* the same statement for the reverberant builder alone
C1_ReverberantShapes == MultiChannel => C1_PlacedBuffersHaveTargetShape

\* the anechoic builder on a valid example stops at the shape assertion
C1_AnechoicAlwaysFails ==
    (Done /\ Anechoic /\ ValidExample(given, params.fn)) =>
        outcome = "AssertionError" /\ ret = ShapeAssertion


\* the largest magnitude of a row
PeakOf(row) ==
    CHOOSE m \in {Abs(row[i]) : i \in 1..Len(row)} :
        \A i \in 1..Len(row) : Abs(row[i]) <= m

\* some channel of the response exceeds a tenth of its peak at index i
AboveTenth(rows, i) ==
    \E d \in 1..Len(rows) : 10 * Abs(rows[d][i + 1]) > PeakOf(rows[d])

\* the onset of the k-th response of the given example: the first index at
\* which a channel exceeds a tenth of its peak, over all channels
OnsetOf(k) ==
    LET rows == given.audio_data.rir.a[k]
    IN  CHOOSE i \in 0..(Len(rows[1]) - 1) :
            AboveTenth(rows, i) /\ \A j \in 0..(i - 1) : ~AboveTenth(rows, j)

\* the buffers stored under key are placed at original offset - onset
PlacedAtRirOffset(key) ==
    HasKey(example.audio_data, key) =>
        \A k \in 1..Len(example.audio_data[key]) :
            example.audio_data[key][k].onset =
                given.offset.original_source[k] - OnsetOf(k)

\* C4: in the reverberant builder the offset that places the reverberated
\* signal, its early part and its tail part of source k, and the offset
\* recorded under offset.original_reverberated, is original_offset[k] -
\* rir_start_sample[k]; offset.original_source is left unchanged and places
\* speech_source.
C4_RirOffsetIsOffsetMinusOnset ==
    (Done /\ MultiChannel) =>
        /\ example.offset.original_source = given.offset.original_source
        /\ HasKey(example.audio_data, "speech_source") =>
              \A k \in 1..Len(example.audio_data.speech_source) :
                  example.audio_data.speech_source[k].onset =
                      given.offset.original_source[k]
        /\ PlacedAtRirOffset("speech_image")
        /\ PlacedAtRirOffset("speech_reverberation_early")
        /\ PlacedAtRirOffset("speech_reverberation_tail")
        /\ HasKey(example.offset, "original_reverberated") =>
              \A k \in 1..Len(example.offset.original_reverberated) :
                  example.offset.original_reverberated[k] =
                      given.offset.original_source[k] - OnsetOf(k)

\* two sources with different positive onsets, placed with both stages
C4_Witness ==
    /\ BuilderReturned /\ MultiChannel
    /\ HasKey(example.audio_data, "speech_reverberation_early")
    /\ HasKey(example.audio_data, "speech_reverberation_tail")
    /\ Len(given.speaker_id) = 2
    /\ OnsetOf(1) > 0 /\ OnsetOf(2) > OnsetOf(1)
    /\ example.offset.original_reverberated[1] = given.offset.original_source[1] - 1
    /\ example.audio_data.speech_image[2].onset = given.offset.original_source[2] - OnsetOf(2)
    /\ example.audio_data.speech_source[2].onset = given.offset.original_source[2]


\* the convolved signals stored under key: one per source, of shape
\* (D, T_k + rir_length - 1)
ConvolvedShapes(key) ==
    HasKey(example.audio_data, key) =>
        LET x == example.audio_data[key]
            num_samples == given.num_samples.original_source
        IN  /\ Len(x) = Len(num_samples)
            /\ Len(x) = Len(given.speaker_id)
            /\ \A k \in 1..Len(x) :
                  Shape(x[k]) = <<ChannelsOf(given, params),
                                  num_samples[k] + Shape(given.audio_data.rir)[3] - 1>>

\* the given example makes a convolved signal of another shape, or another
\* number of convolved signals than recorded lengths, responses or speakers
ConvolutionMismatch ==
    LET s == given.audio_data.original_source
        num_samples == given.num_samples.original_source
    IN  \/ Len(s) # Len(given.audio_data.rir.a)
        \/ Len(s) # Len(num_samples)
        \/ Len(s) # Len(given.speaker_id)
        \/ \E k \in 1..Len(s) : Len(s[k].a) # num_samples[k]

\* C5: in the reverberant builder every convolved signal (full, early-masked,
\* tail-masked) of source k has shape (D, T_k + rir_length - 1), T_k the
\* recorded sample count and D the channels after channel_slice; a call that
\* convolves signals of another shape or number ends in an assertion
\* failure and stores no convolved signal.
C5_ConvolvedShape ==
    (Done /\ MultiChannel) =>
        /\ ConvolvedShapes("original_reverberated")
        /\ ConvolvedShapes("original_reverberation_early")
        /\ ConvolvedShapes("original_reverberation_tail")
        /\ (HasKey(example.audio_data, "speech_source") /\ ConvolutionMismatch) =>
              /\ outcome = "AssertionError"
              /\ ~HasKey(example.audio_data, "original_reverberated")

\* one channel selected out of two, all three convolutions stored
C5_Witness ==
    /\ BuilderReturned /\ MultiChannel
    /\ Shape(given.audio_data.rir)[2] = 2 /\ ChannelsOf(given, params) = 1
    /\ Shape(given.audio_data.rir)[3] > 1
    /\ Len(given.speaker_id) = 2
    /\ HasKey(example.audio_data, "original_reverberation_early")
    /\ HasKey(example.audio_data, "original_reverberation_tail")
    /\ Shape(example.audio_data.original_reverberation_tail[2]) =
          <<1, given.num_samples.original_source[2] + Shape(given.audio_data.rir)[3] - 1>>

\* a recorded sample count that is not the length of the signal
C5_WitnessAbort ==
    /\ Done /\ MultiChannel
    /\ given.num_samples.original_source = <<2, 3>>
    /\ outcome = "AssertionError" /\ ret = "get_convolved_signals: x_.shape"


\* the boundary of source k, rir_stop_sample[k], and the index at which a
\* Python slice with that bound cuts an axis of length L
StopOf(k) == OnsetOf(k) + params.early_rir_samples
CutOf(k, L) ==
    IF StopOf(k) < 0 THEN (IF StopOf(k) + L < 0 THEN 0 ELSE StopOf(k) + L)
    ELSE IF StopOf(k) > L THEN L ELSE StopOf(k)

\* the responses that are convolved: the given ones after channel_slice
SelectedRir ==
    IF params.channel_slice = None THEN given.audio_data.rir.a
    ELSE [k \in 1..Len(given.audio_data.rir.a) |->
            [j \in 1..Len(params.channel_slice[1]) |->
                given.audio_data.rir.a[k][params.channel_slice[1][j] + 1]]]

\* rir_early and rir_tail split every response at its boundary
RirPartitioned ==
    LET h == SelectedRir
        e == example.audio_data.rir_early.a
        t == example.audio_data.rir_tail.a
    IN  \A k \in 1..Len(h) : \A d \in 1..Len(h[k]) : \A j \in 1..Len(h[k][d]) :
            IF j - 1 < CutOf(k, Len(h[k][d]))
            THEN e[k][d][j] = h[k][d][j] /\ t[k][d][j] = 0
            ELSE e[k][d][j] = 0 /\ t[k][d][j] = h[k][d][j]

\* early + tail = full, sample by sample and with one scale per source
ConvolutionsAdd ==
    LET x == example.audio_data.original_reverberated
        e == example.audio_data.original_reverberation_early
        t == example.audio_data.original_reverberation_tail
    IN  \A k \in 1..Len(x) :
            /\ e[k].unit = x[k].unit /\ t[k].unit = x[k].unit
            /\ \A d \in 1..Len(x[k].a) : \A n \in 1..Len(x[k].a[d]) :
                  e[k].a[d][n] + t[k].a[d][n] = x[k].a[d][n]

\* C6: for every source and every boundary rir_stop_sample = onset +
\* early_rir_samples (0, at or beyond rir_length, negative) the early-masked
\* and the tail-masked response partition the response, and the early-masked
\* plus the tail-masked convolution equals the full convolution sample by
\* sample.
C6_EarlyPlusTailIsFull ==
    (BuilderReturned /\ MultiChannel
        /\ params.add_speech_reverberation_early
        /\ params.add_speech_reverberation_tail) =>
        /\ ConvolutionsAdd
        /\ params.details => RirPartitioned

\* a negative boundary that cuts one response inside and another at 0
C6_Witness ==
    /\ BuilderReturned /\ MultiChannel /\ params.details
    /\ params.early_rir_samples < 0
    /\ Len(given.speaker_id) = 2
    /\ StopOf(1) < 0 /\ CutOf(1, Shape(given.audio_data.rir)[3]) > 0
    /\ StopOf(2) = 0
    /\ example.audio_data.rir_early.a[1] # example.audio_data.rir_tail.a[1]
    /\ \E d \in 1..Len(SelectedRir[1]) :
          /\ ~IsZero(example.audio_data.rir_early.a[1][d])
          /\ ~IsZero(example.audio_data.rir_tail.a[1][d])
    /\ \A d \in 1..Len(SelectedRir[2]) : IsZero(example.audio_data.rir_early.a[2][d])

\* a boundary beyond the response: everything is early
C6_WitnessBeyond ==
    /\ BuilderReturned /\ MultiChannel /\ params.details
    /\ StopOf(1) > Shape(given.audio_data.rir)[3]
    /\ example.audio_data.rir_early.a = SelectedRir


\* the rows of an array of one or two dimensions
RowsIn(x) == IF x.nd = 1 THEN <<x.a>> ELSE x.a

\* sample t of channel d of a placed buffer: the sample of its payload that
\* falls on t, zero where the payload does not reach
ValueAt(p, d, t) ==
    LET row == RowsIn(p.seg)[d]
        i == t - p.onset
    IN  IF i >= 1 /\ i <= Len(row) THEN row[i] ELSE 0

\* the speech part of the observation is, element by element and scale by
\* scale, the sum of the placed speech images of all sources
ObservationIsSumOfImages ==
    LET obs == example.audio_data.observation
        img == example.audio_data.speech_image
        units == {img[k].seg.unit : k \in 1..Len(img)}
    IN  /\ Len(img) = Len(given.speaker_id)
        /\ \A k \in 1..Len(img) : img[k].shape = Shape(obs)
        /\ \A d \in 1..Len(RowsIn(obs)) : \A t \in 1..Len(RowsIn(obs)[d]) :
              LET e == RowsIn(obs)[d][t]
              IN  /\ DOMAIN e.sp \subseteq units
                  /\ \A u \in units :
                        LCoef(e.sp, u) =
                            SumSeq([k \in 1..Len(img) |->
                                      IF img[k].seg.unit = u
                                      THEN ValueAt(img[k], d, t) ELSE 0])

\* C9: with snr_range=None, after a builder returns, the observation is the
\* unmodified element-wise sum of the placed speech images of all K sources,
\* audio_data has no noise_image and the example has no snr.
C9_NoiseFreeObservation ==
    (BuilderReturned /\ params.snr_range = None) =>
        /\ ObservationIsSumOfImages
        /\ example.audio_data.observation.unit = NoNoise
        /\ \A d \in 1..Len(RowsIn(example.audio_data.observation)) :
              \A t \in 1..Len(RowsIn(example.audio_data.observation)[d]) :
                  RowsIn(example.audio_data.observation)[d][t].nz = 0
        /\ ~HasKey(example.audio_data, "noise_image")
        /\ ~HasKey(example, "snr")

\* two sources whose images overlap in some sample of the observation
C9_Witness ==
    /\ BuilderReturned /\ params.snr_range = None
    /\ Len(given.speaker_id) = 2
    /\ \E d \in 1..Len(RowsIn(example.audio_data.observation)) :
          \E t \in 1..Len(RowsIn(example.audio_data.observation)[d]) :
              /\ ValueAt(example.audio_data.speech_image[1], d, t) # 0
              /\ ValueAt(example.audio_data.speech_image[2], d, t) # 0
              /\ Cardinality(DOMAIN RowsIn(example.audio_data.observation)[d][t].sp) = 2

\* the same call without noise
NoiseFreeRun ==
    IF Anechoic
    THEN anechoic_scenario_map_fn(given, [params EXCEPT !.snr_range = None], np_random)
    ELSE multi_channel_scenario_map_fn(given, [params EXCEPT !.snr_range = None], np_random)

\* C10: with a snr_range, after a builder returns, the observation is the
\* sum of the placed speech images plus the retained noise_image, element by
\* element, noise_image has the shape of the observation, and speech_image
\* and speech_source are what they are without the noise.
C10_ObservationIsImagesPlusNoise ==
    (BuilderReturned /\ params.snr_range # None) =>
        /\ HasKey(example.audio_data, "noise_image")
        /\ Shape(example.audio_data.noise_image) = Shape(example.audio_data.observation)
        /\ ObservationIsSumOfImages
        /\ example.audio_data.observation.unit = example.audio_data.noise_image.unit
        /\ \A d \in 1..Len(RowsIn(example.audio_data.observation)) :
              \A t \in 1..Len(RowsIn(example.audio_data.observation)[d]) :
                  RowsIn(example.audio_data.observation)[d][t].nz =
                      RowsIn(example.audio_data.noise_image)[d][t]
        /\ example.audio_data.speech_image = NoiseFreeRun.example.audio_data.speech_image
        /\ example.audio_data.speech_source = NoiseFreeRun.example.audio_data.speech_source

\* noise on an observation of two overlapping sources
C10_Witness ==
    /\ BuilderReturned /\ params.snr_range # None
    /\ Len(given.speaker_id) = 2
    /\ HasKey(example, "snr")
    /\ example.audio_data.noise_image.unit.kind = "noise"
    /\ \E d \in 1..Len(RowsIn(example.audio_data.observation)) :
          \E t \in 1..Len(RowsIn(example.audio_data.observation)[d]) :
              /\ RowsIn(example.audio_data.observation)[d][t].nz # 0
              /\ Cardinality(DOMAIN RowsIn(example.audio_data.observation)[d][t].sp) = 2


(***************************************************************************)
(* Specification SpecMic: invocations of add_microphone_noise by two       *)
(* workers, interleaved between the SNR draw and the noise draw, while     *)
(* other code draws from the process-wide generator np.random              *)
(***************************************************************************)
MaxCalls == 3          \* logged invocations
MaxDraws == 2          \* draws of other code from np.random

Workers == {"w1", "w2"}

MicExample(id, mix) == [example_id |-> id, audio_data |-> [observation |-> mix]]

MicMixtures == {ToMix(A1(<<1, MaxMixAmp>>)), ToMix(A1(<<MaxMixAmp, 0, -1>>))}

\* the arguments of an invocation
MicInputs ==
    [example : {MicExample(id, mix) : id \in {"ex_a", "ex_b"}, mix \in MicMixtures},
     snr_range : {<<20, 30>>}]
    \cup [example : {MicExample("ex_a", ToMix(A1(<<1, MaxMixAmp>>)))},
          snr_range : {<<10, 20>>}]

InitMic ==
    /\ pc = [w \in Workers |-> "idle"]
    /\ example = [w \in Workers |-> None]
    /\ params = [w \in Workers |-> None]
    /\ given = [w \in Workers |-> None]
    /\ outcome = "none"
    /\ ret = None
    /\ np_random = [seed |-> 0, pos |-> 0]
    /\ noise_log = {}

\* lines 155-159: the call is entered and the SNR is drawn
MicDrawSnr(w) ==
    /\ pc[w] = "idle"
    /\ Cardinality(noise_log) < MaxCalls
    /\ \E in \in MicInputs :
          /\ given' = [given EXCEPT ![w] = in.example]
          /\ params' = [params EXCEPT ![w] = in.snr_range]
          /\ example' = [example EXCEPT ![w] = DrawSnr(in.example, in.snr_range)]
    /\ pc' = [pc EXCEPT ![w] = "snr_drawn"]
    /\ UNCHANGED <<outcome, ret, np_random, noise_log>>

\* lines 161-166: the noise is drawn and added; the invocation is logged
\* with the state of np.random at that moment
MicInjectNoise(w) ==
    /\ pc[w] = "snr_drawn"
    /\ LET ex == InjectNoise(example[w])
       IN  noise_log' = noise_log \cup
               {[example_id |-> given[w].example_id,
                 snr_range |-> params[w],
                 mix |-> given[w].audio_data.observation,
                 snr |-> ex.snr,
                 noise_image |-> ex.audio_data.noise_image,
                 at |-> np_random.pos]}
    /\ pc' = [pc EXCEPT ![w] = "idle"]
    /\ example' = [example EXCEPT ![w] = None]
    /\ params' = [params EXCEPT ![w] = None]
    /\ given' = [given EXCEPT ![w] = None]
    /\ UNCHANGED <<outcome, ret, np_random>>

\* other code draws a number from np.random
OtherDraw ==
    /\ np_random.pos < MaxDraws
    /\ np_random' = [np_random EXCEPT !.pos = @ + 1]
    /\ UNCHANGED <<pc, example, given, params, outcome, ret, noise_log>>

NextMic ==
    \/ \E w \in Workers : MicDrawSnr(w)
    \/ \E w \in Workers : MicInjectNoise(w)
    \/ OtherDraw

SpecMic == InitMic /\ [][NextMic]_vars

\* two logged invocations with the same example id, snr_range and clean mixture
SameInvocation(a, b) ==
    /\ a.example_id = b.example_id
    /\ a.snr_range = b.snr_range
    /\ a.mix = b.mix

\* C7: two invocations of add_microphone_noise with the same example_id, the
\* same snr_range and the same clean mixture produce the same sampled SNR
\* and identical noise_image buffers, whatever calls for other examples and
\* whatever draws from the shared generator happen between or during them.
C7_NoiseDeterminedByExampleId ==
    \A a \in noise_log : \A b \in noise_log :
        SameInvocation(a, b) => a.snr = b.snr /\ a.noise_image = b.noise_image

\* the same invocation made twice, np.random advanced in between and an
\* invocation for another example made as well
C7_Witness ==
    \E a \in noise_log : \E b \in noise_log : \E c \in noise_log :
        /\ SameInvocation(a, b) /\ a.at # b.at
        /\ c.example_id # a.example_id
        /\ c.snr # a.snr


(***************************************************************************)
(* Specification SpecScale: get_scale applied to drawn log-weights and     *)
(* signals, and the signals multiplied by the returned factors             *)
(***************************************************************************)
MaxSigLen == 3        \* longest drawn signal
MaxSigAmp == 1        \* largest |sample| of a drawn signal

ScaleSignals ==
    {A1(s) : s \in UNION {SeqsOfLen({-1, 0, MaxSigAmp}, n) : n \in 1..MaxSigLen}}

LogWeights == {0, 10}

\* lists of one or two signals with as many log-weights, and lists whose
\* lengths differ
ScaleInputs ==
    [log_weights : SeqsOfLen(LogWeights, 2), signals : SeqsOfLen(ScaleSignals, 2)]
    \cup [log_weights : SeqsOfLen(LogWeights, 1), signals : SeqsOfLen(ScaleSignals, 1)]
    \cup [log_weights : SeqsOfLen(LogWeights, 2), signals : SeqsOfLen(ScaleSignals, 1)]
    \cup [log_weights : SeqsOfLen(LogWeights, 1), signals : {<<>>}]
    \cup [log_weights : {<<>>}, signals : {<<>>}]

InitScale ==
    /\ pc = "ready"
    /\ example = None
    /\ given = None
    /\ params \in ScaleInputs
    /\ outcome = "none"
    /\ ret = None
    /\ np_random = 0
    /\ noise_log = {}

\* scale = get_scale(log_weights, signals); [s_ * scale_ for ... in zip(...)]
ScaleCall ==
    /\ pc = "ready"
    /\ LET r == get_scale(params.log_weights, params.signals)
       IN  /\ outcome' = (IF r.status = "ok" THEN "returned" ELSE r.status)
           /\ ret' = r.value
           /\ example' = (IF r.status = "ok"
                          THEN apply_scale(params.signals, r.value) ELSE None)
    /\ pc' = "done"
    /\ UNCHANGED <<given, params, np_random, noise_log>>

NextScale == ScaleCall

SpecScale == InitScale /\ [][NextScale]_vars

ScaleDone == pc = "done" /\ outcome = "returned"

\* the variance of the signal x as the fraction vn / vd, restated
VarNum(x) == Len(x.a) * SumSeq([i \in 1..Len(x.a) |-> x.a[i] * x.a[i]])
                - SumSeq(x.a) * SumSeq(x.a)
VarDen(x) == Len(x.a) * Len(x.a)

\* the variance of the scaled signal y = x * u is
\*     Var(x) * 10^(u.lw / 10) / std(u)^2 / u.div^2 ;
\* it is not zero when Var(x) and std(u) are not, and then
\* Var(x) / std(u)^2 is the fraction RelNum(y) / RelDen(y)
ScaledVarNonZero(y) == VarNum(y) # 0 /\ ~y.unit.tiny /\ y.unit.vn # 0
RelNum(y) == VarNum(y) * y.unit.vd
RelDen(y) == VarDen(y) * y.unit.vn

\* std(y_i) / std(y_j) = 10^(D / 20) with D = log_weights[i] - log_weights[j]
StdRatioIsWeightRatio(i, j) ==
    LET yi == example[i]
        yj == example[j]
    IN  /\ ScaledVarNonZero(yi) /\ ScaledVarNonZero(yj)
        /\ RelNum(yi) * RelDen(yj) = RelNum(yj) * RelDen(yi)
        /\ yi.unit.div = yj.unit.div
        /\ yi.unit.lw - yj.unit.lw = params.log_weights[i] - params.log_weights[j]

\* C11 as claimed: for any two sources of one call to get_scale the ratio of
\* the standard deviations of the scaled signals is 10^(D/20), D the
\* difference of their log-weights.
C11_StdRatioForAnySources ==
    ScaleDone =>
        \A i \in 1..Len(example) : \A j \in 1..Len(example) :
            StdRatioIsWeightRatio(i, j)

\* C11 amended: ... for any two sources whose signals have a non-zero
\* standard deviation.
C11_StdRatioForNonZeroStd ==
    ScaleDone =>
        \A i \in 1..Len(example) : \A j \in 1..Len(example) :
            (VarNum(params.signals[i]) # 0 /\ VarNum(params.signals[j]) # 0) =>
                StdRatioIsWeightRatio(i, j)

\* two signals of different non-zero power and different log-weights
C11_Witness ==
    /\ ScaleDone /\ Len(example) = 2
    /\ VarNum(params.signals[1]) # 0 /\ VarNum(params.signals[2]) # 0
    /\ VarNum(params.signals[1]) * VarDen(params.signals[2])
          # VarNum(params.signals[2]) * VarDen(params.signals[1])
    /\ params.log_weights[1] - params.log_weights[2] = 10
    /\ ret[1].lw - ret[2].lw = 10

\* the factor 10^(lw/20) / std / div is a positive real number
PositiveFactor(u) ==
    /\ u.div > 0
    /\ u.vd > 0
    /\ u.vn >= 0
    /\ u.vn = 0 => u.tiny

\* C12: get_scale returns a strictly positive factor for every source, also
\* for a source of zero power, whose standard deviation is floored at the
\* smallest positive number of the signal's type; the call does not fail.
C12_ScalePositive ==
    (pc = "done" /\ Len(params.signals) >= 1
        /\ Len(params.log_weights) = Len(params.signals)) =>
        /\ outcome = "returned"
        /\ Len(ret) = Len(params.signals)
        /\ \A k \in 1..Len(ret) :
              /\ PositiveFactor(ret[k])
              /\ ret[k].tiny <=> VarNum(params.signals[k]) = 0

\* a constant signal next to one of non-zero power
C12_Witness ==
    /\ ScaleDone /\ Len(ret) = 2
    /\ VarNum(params.signals[1]) = 0 /\ Len(params.signals[1].a) > 1
    /\ ret[1].tiny /\ PositiveFactor(ret[1])
    /\ VarNum(params.signals[2]) # 0 /\ ~ret[2].tiny


\* the numbers of source signals, offsets and log-weights are not all K
LengthsDisagree(ex) ==
    LET K == Len(ex.speaker_id)
    IN  \/ Len(ex.audio_data.original_source) # K
        \/ Len(ex.offset.original_source) # K
        \/ Len(ex.log_weights) # K

\* C13: when the numbers of source signals, offsets and log-weights of an
\* example are not all equal to K, the builder aborts and stores no
\* observation; surplus entries are never silently ignored.
C13_LengthMismatchAborts ==
    (Done /\ LengthsDisagree(given)) =>
        /\ outcome # "returned"
        /\ ~HasKey(example.audio_data, "observation")

\* the reverberant builder returns an observation for two sources with
\* three offsets
C13_SurplusOffsetsIgnored ==
    /\ BuilderReturned /\ MultiChannel
    /\ Len(given.speaker_id) = 2
    /\ Len(given.audio_data.original_source) = 2
    /\ Len(given.log_weights) = 2
    /\ Len(given.offset.original_source) = 3
    /\ HasKey(example.audio_data, "observation")

\* every other disagreement of the lengths ends in an exception
C13_OtherMismatchesAbort ==
    (Done /\ LengthsDisagree(given)
        /\ ~(MultiChannel /\ Len(given.offset.original_source)
                                > Len(given.audio_data.original_source))) =>
        /\ outcome # "returned"
        /\ ~HasKey(example.audio_data, "observation")

\* the call of the state with the two optional stages set to e and t
Rerun(e, t) ==
    multi_channel_scenario_map_fn(given,
        [params EXCEPT !.add_speech_reverberation_early = e,
                       !.add_speech_reverberation_tail = t],
        [seed |-> 0, pos |-> 0])

SameField(a, b, key) ==
    /\ HasKey(a, key) <=> HasKey(b, key)
    /\ HasKey(a, key) => a[key] = b[key]

CommonKeys ==
    {"observation", "speech_source", "speech_image", "noise_image",
     "original_source", "original_reverberated", "rir"}
EarlyKeys ==
    {"original_reverberation_early", "speech_reverberation_early", "rir_early"}
TailKeys ==
    {"original_reverberation_tail", "speech_reverberation_tail", "rir_tail"}

\* r, the call with the stages set to e and t, against the call of the state
StagesAgree(r, e, t) ==
    /\ r.outcome = "returned"
    /\ \A key \in CommonKeys :
          SameField(r.example.audio_data, example.audio_data, key)
    /\ r.example.offset = example.offset
    /\ r.example.num_samples = example.num_samples
    /\ HasKey(r.example, "snr") <=> HasKey(example, "snr")
    /\ HasKey(example, "snr") => r.example.snr = example.snr
    /\ e = params.add_speech_reverberation_early =>
          \A key \in EarlyKeys :
              SameField(r.example.audio_data, example.audio_data, key)
    /\ t = params.add_speech_reverberation_tail =>
          \A key \in TailKeys :
              SameField(r.example.audio_data, example.audio_data, key)
    /\ ~e => \A key \in EarlyKeys : ~HasKey(r.example.audio_data, key)
    /\ ~t => \A key \in TailKeys : ~HasKey(r.example.audio_data, key)

\* C14: for the same example the observation, speech_source, speech_image,
\* noise_image, the recorded offsets and the output of the other optional
\* stage are the same for every combination of
\* add_speech_reverberation_early and add_speech_reverberation_tail, and a
\* disabled stage populates none of its fields.
C14_StagesIndependent ==
    (BuilderReturned /\ MultiChannel) =>
        /\ \A e \in BOOLEAN : \A t \in BOOLEAN : StagesAgree(Rerun(e, t), e, t)
        /\ ~params.add_speech_reverberation_early =>
              \A key \in EarlyKeys : ~HasKey(example.audio_data, key)
        /\ ~params.add_speech_reverberation_tail =>
              \A key \in TailKeys : ~HasKey(example.audio_data, key)

\* both stages ran on a response that the boundary splits into two
\* non-zero parts
C14_Witness ==
    /\ BuilderReturned /\ MultiChannel
    /\ params.add_speech_reverberation_early
    /\ params.add_speech_reverberation_tail
    /\ params.details
    /\ \E k \in 1..Len(example.audio_data.rir_early.a) :
          /\ ~IsZero(Flatten(example.audio_data.rir_early.a[k]))
          /\ ~IsZero(Flatten(example.audio_data.rir_tail.a[k]))
    /\ ~HasKey(Rerun(FALSE, TRUE).example.audio_data, "speech_reverberation_early")
    /\ Rerun(FALSE, TRUE).example.audio_data.speech_reverberation_tail
          = example.audio_data.speech_reverberation_tail

\* only the tail stage ran
C14_WitnessTailOnly ==
    /\ BuilderReturned /\ MultiChannel
    /\ ~params.add_speech_reverberation_early
    /\ params.add_speech_reverberation_tail
    /\ HasKey(example.audio_data, "speech_reverberation_tail")
    /\ ~HasKey(example.audio_data, "speech_reverberation_early")

\* source k of the given example after s_ - np.mean(s_), restated
NormalizedSource(k) ==
    LET x == given.audio_data.original_source[k].a
    IN  [i \in 1..Len(x) |-> x[i] - SumSeq(x) \div Len(x)]

\* the signals convolved into original_reverberated are the normalized ones
ConvolvedFromNormalized ==
    \A k \in 1..Len(example.audio_data.original_reverberated) :
        \A d \in 1..Len(SelectedRir[k]) :
            example.audio_data.original_reverberated[k].a[d]
                = Conv1(NormalizedSource(k), SelectedRir[k][d])

\* the signals placed into speech_source are the normalized ones
PlacedFromNormalized ==
    \A k \in 1..Len(example.audio_data.speech_source) :
        /\ SumSeq(example.audio_data.speech_source[k].seg.a) = 0
        /\ example.audio_data.speech_source[k].seg.a = NormalizedSource(k)

\* C15: with normalize_sources every source signal that is scaled,
\* convolved or placed into speech_source and speech_image is the
\* mean-normalized signal (mean 0), not the original one.
C15_SourcesMeanNormalized ==
    (BuilderReturned /\ params.normalize_sources) =>
        ConvolvedFromNormalized /\ PlacedFromNormalized

\* the reverberant builder convolves the normalized signals
C15_ImagesFromNormalized ==
    (BuilderReturned /\ params.normalize_sources) => ConvolvedFromNormalized

\* ... and places the original ones, of mean k + 1, into speech_source
C15_SpeechSourceNotNormalized ==
    /\ BuilderReturned /\ MultiChannel /\ params.normalize_sources
    /\ ConvolvedFromNormalized
    /\ \A k \in 1..Len(example.audio_data.speech_source) :
          /\ example.audio_data.speech_source[k].seg
                = given.audio_data.original_source[k]
          /\ SumSeq(example.audio_data.speech_source[k].seg.a) # 0

\* C16: a builder call changes only the example's audio_data: every other
\* field of the example (example_id, offset, num_samples, log_weights, snr
\* and all other metadata) holds the same value after the call as before.
C16_OnlyAudioDataChanges ==
    Done =>
        /\ DOMAIN example = DOMAIN given
        /\ \A key \in (DOMAIN given) \ {"audio_data"} : example[key] = given[key]

\* the call without noise has added original_reverberated to offset and to
\* num_samples
C16_OffsetsRecorded ==
    /\ BuilderReturned /\ MultiChannel /\ params.snr_range = None
    /\ DOMAIN example = DOMAIN given
    /\ ~HasKey(given.offset, "original_reverberated")
    /\ HasKey(example.offset, "original_reverberated")
    /\ ~HasKey(given.num_samples, "original_reverberated")
    /\ HasKey(example.num_samples, "original_reverberated")

\* the call with noise has added the field snr
C16_SnrWritten ==
    /\ BuilderReturned /\ params.snr_range # None
    /\ ~HasKey(given, "snr")
    /\ HasKey(example, "snr")

\* what the call was given is kept: the fields it had, and the entries of
\* offset and num_samples
C16_GivenFieldsKept ==
    Done =>
        /\ \A key \in (DOMAIN given) \ {"audio_data", "offset", "num_samples"} :
              HasKey(example, key) /\ example[key] = given[key]
        /\ \A key \in DOMAIN given.offset : example.offset[key] = given.offset[key]
        /\ \A key \in DOMAIN given.num_samples :
              example.num_samples[key] = given.num_samples[key]

\* C17: the reverberant builder called on an example whose audio_data has
\* no RIR entry aborts before it has written any field of the example or of
\* audio_data, and produces no observation.
C17_MissingRirAbortsUnwritten ==
    (Done /\ MultiChannel /\ ~HasKey(given.audio_data, "rir")) =>
        /\ outcome = "KeyError"
        /\ example = given
        /\ ~HasKey(example.audio_data, "observation")

\* the call on the example without responses has ended
C17_Witness ==
    /\ Done /\ MultiChannel
    /\ ~HasKey(given.audio_data, "rir")
    /\ HasKey(given.audio_data, "original_source")
    /\ outcome = "KeyError"
    /\ ret = "audio_data['rir']"

\* the call of the state on all channels, channel_slice=None
AllChannels ==
    multi_channel_scenario_map_fn(given, [params EXCEPT !.channel_slice = None],
                                  [seed |-> 0, pos |-> 0])

\* the channel of the full response that output channel j shows
ChannelOf(j) ==
    IF params.channel_slice = None THEN j ELSE params.channel_slice[1][j] + 1

\* the masked responses stored under key are the selected channels of those
\* of the call r on all channels: the same boundary rir_stop_sample
SameBoundary(r, key) ==
    LET own == example.audio_data[key].a
        all == r.example.audio_data[key].a
    IN  /\ Len(own) = Len(all)
        /\ \A k \in 1..Len(own) :
              /\ Len(own[k]) = ChannelsOf(given, params)
              /\ \A j \in 1..Len(own[k]) : own[k][j] = all[k][ChannelOf(j)]

\* the buffers stored under key are placed where the call r places them,
\* with the selected number of channels
SamePlacement(r, key) ==
    HasKey(example.audio_data, key) =>
        /\ HasKey(r.example.audio_data, key)
        /\ Len(example.audio_data[key]) = Len(r.example.audio_data[key])
        /\ \A k \in 1..Len(example.audio_data[key]) :
              /\ example.audio_data[key][k].onset
                    = r.example.audio_data[key][k].onset
              /\ example.audio_data[key][k].shape
                    = <<ChannelsOf(given, params), given.num_samples.observation>>

\* the call of the state against the call r on all channels
SliceIndependent(r) ==
    /\ r.outcome = "returned"
    /\ example.offset = r.example.offset
    /\ \A k \in 1..Len(given.audio_data.rir.a) :
          example.offset.original_reverberated[k]
              = given.offset.original_source[k] - OnsetOf(k)
    /\ SamePlacement(r, "speech_image")
    /\ SamePlacement(r, "speech_reverberation_early")
    /\ SamePlacement(r, "speech_reverberation_tail")
    /\ params.details => SameBoundary(r, "rir_early") /\ SameBoundary(r, "rir_tail")

\* C19: the RIR onsets are estimated on the full response before
\* channel_slice is applied: for the same example the onsets, the
\* RIR-aligned offsets and the boundary rir_stop_sample are the same for
\* every channel_slice, None included; only the number of channels of the
\* outputs changes.
C19_OnsetsBeforeChannelSlice ==
    (BuilderReturned /\ MultiChannel) => SliceIndependent(AllChannels)

\* the second channel alone is selected, and it starts later than the first
C19_Witness ==
    /\ BuilderReturned /\ MultiChannel /\ params.details
    /\ params.channel_slice = <<<<1>>>>
    /\ Shape(given.audio_data.rir)[2] = 2
    /\ given.audio_data.rir.a[1][2][OnsetOf(1) + 1] = 0
    /\ example.audio_data.speech_image[1].shape[1] = 1
    /\ AllChannels.example.audio_data.speech_image[1].shape[1] = 2
    /\ example.audio_data.speech_image[1].onset
          = given.offset.original_source[1] - OnsetOf(1)
    /\ ~IsZero(Flatten(example.audio_data.rir_tail.a[1]))

\* the placed early part and the placed tail part of source k add up to its
\* placed image: one scale, one offset, one shape, and sample by sample
PlacedPartsAdd(k) ==
    LET img == example.audio_data.speech_image[k]
        e == example.audio_data.speech_reverberation_early[k]
        t == example.audio_data.speech_reverberation_tail[k]
    IN  /\ e.seg.unit = img.seg.unit /\ t.seg.unit = img.seg.unit
        /\ img.seg.unit.kind = "scale"
        /\ img.seg.unit.lw = given.log_weights[k]
        /\ e.onset = img.onset /\ t.onset = img.onset
        /\ e.shape = img.shape /\ t.shape = img.shape
        /\ img.shape = <<ChannelsOf(given, params), given.num_samples.observation>>
        /\ \A d \in 1..img.shape[1] : \A n \in 1..img.shape[2] :
              ValueAt(e, d, n) + ValueAt(t, d, n) = ValueAt(img, d, n)

\* C20: with both optional stages enabled, for every source k
\* speech_reverberation_early[k] + speech_reverberation_tail[k] equals
\* speech_image[k] element by element: the three are scaled by the same
\* scale[k] and placed at the same RIR-aligned offset into the same (D, T)
\* shape.
C20_PlacedEarlyPlusTailIsImage ==
    (BuilderReturned /\ MultiChannel
        /\ params.add_speech_reverberation_early
        /\ params.add_speech_reverberation_tail) =>
        /\ Len(example.audio_data.speech_image) = Len(given.speaker_id)
        /\ Len(example.audio_data.speech_reverberation_early) = Len(given.speaker_id)
        /\ Len(example.audio_data.speech_reverberation_tail) = Len(given.speaker_id)
        /\ \A k \in 1..Len(given.speaker_id) : PlacedPartsAdd(k)

\* two sources of different scale, the early and the tail part of one of
\* them both reaching into the observation
C20_Witness ==
    /\ BuilderReturned /\ MultiChannel
    /\ params.add_speech_reverberation_early
    /\ params.add_speech_reverberation_tail
    /\ Len(given.speaker_id) = 2
    /\ \E k \in 1..2 : \E d \in 1..ChannelsOf(given, params) :
          /\ \E n \in 1..given.num_samples.observation :
                ValueAt(example.audio_data.speech_reverberation_early[k], d, n) # 0
          /\ \E n \in 1..given.num_samples.observation :
                ValueAt(example.audio_data.speech_reverberation_tail[k], d, n) # 0
    /\ example.audio_data.speech_image[1].seg.unit
          # example.audio_data.speech_image[2].seg.unit

(***************************************************************************)
(* Specification SpecSnr: an example passes the sampler sample_uniform_snr *)
(* (or not) and then add_microphone_noise                                  *)
(***************************************************************************)
SnrExamples ==
    {MicExample(id, mix) : id \in {"ex_a", "ex_b", "ex_c"}, mix \in MicMixtures}

\* snr_range of sample_uniform_snr: the default, another one, a wrong one
SamplerRanges == {<<20, 30>>, <<0, 10>>, <<20, 30, 40>>}

\* snr_range of add_microphone_noise
NoiseRanges == {None, <<20, 30>>, <<10, 20>>}

\* float(get_rng_example(example, 'snr').uniform(*snr_range, size=1)): some
\* number of [low, high), as the rational n / d
SampledSnrs(snr_range) ==
    {[n |-> 4 * snr_range[1] + (snr_range[2] - snr_range[1]) * r, d |-> 4] :
        r \in 0..3}

InitSnr ==
    /\ pc = "scheduled"
    /\ example \in SnrExamples
    /\ given = None
    /\ params \in [sampler_range : SamplerRanges, snr_range : NoiseRanges]
    /\ outcome = "none"
    /\ ret = None
    /\ np_random = [seed |-> 0, pos |-> 0]
    /\ noise_log = {}

\* sample_uniform_snr(example, snr_range=...)
SampleUniformSnr ==
    /\ pc = "scheduled"
    /\ IF Len(params.sampler_range) # 2
       THEN /\ outcome' = "ValueError"
            /\ pc' = "done"
            /\ UNCHANGED example
       ELSE /\ \E snr \in SampledSnrs(params.sampler_range) :
                  example' = Put(example, "snr", snr)
            /\ pc' = "sampled"
            /\ UNCHANGED outcome
    /\ UNCHANGED <<given, params, ret, np_random, noise_log>>

\* add_microphone_noise(example, snr_range), after the sampler or without it
MicNoiseCall ==
    /\ pc \in {"scheduled", "sampled"}
    /\ LET r == add_microphone_noise(example, params.snr_range, np_random)
       IN  /\ example' = r.example
           /\ np_random' = r.np_random
    /\ given' = example
    /\ outcome' = "returned"
    /\ pc' = "done"
    /\ UNCHANGED <<params, ret, noise_log>>

NextSnr == SampleUniformSnr \/ MicNoiseCall

SpecSnr == InitSnr /\ [][NextSnr]_vars

NoiseAdded == pc = "done" /\ outcome = "returned" /\ params.snr_range # None

\* the example ex with the field snr set to v, or without it for v = None
WithSnr(ex, v) ==
    IF v = None THEN [key \in (DOMAIN ex) \ {"snr"} |-> ex[key]]
    ELSE Put(ex, "snr", v)

\* the example after add_microphone_noise on ex with the range of the state
NoisyExample(ex) ==
    add_microphone_noise(ex, params.snr_range, [seed |-> 0, pos |-> 0]).example

\* C21: after add_microphone_noise with snr_range (low, high) the snr
\* recorded in the example is the value that scales the injected noise, lies
\* within [low, high] and depends on example_id and snr_range only: a snr
\* attached to the example beforehand is overwritten and has no influence
\* on the noise.
C21_SnrDrawnByBuilder ==
    NoiseAdded =>
        /\ HasKey(example, "snr")
        /\ example.audio_data.noise_image.unit.kind = "noise"
        /\ example.audio_data.noise_image.unit.db
              = [n |-> -example.snr.n, d |-> example.snr.d]
        /\ example.snr.d > 0
        /\ params.snr_range[1] * example.snr.d <= example.snr.n
        /\ example.snr.n <= params.snr_range[2] * example.snr.d
        /\ \A v \in {None} \cup UNION {SampledSnrs(sr) : sr \in {<<20, 30>>, <<0, 10>>}} :
              NoisyExample(WithSnr(given, v)) = example
        /\ \A mix \in MicMixtures :
              NoisyExample(MicExample(given.example_id, mix)).snr = example.snr

\* the sampler had attached another snr, from the same range, than the one
\* the call has recorded
C21_Witness ==
    /\ NoiseAdded
    /\ HasKey(given, "snr")
    /\ params.sampler_range = params.snr_range
    /\ given.snr # example.snr
    /\ example.audio_data.noise_image.unit.db
          = [n |-> -example.snr.n, d |-> example.snr.d]

\* the sampler had attached a snr outside the range of the call
C21_WitnessOutside ==
    /\ NoiseAdded
    /\ HasKey(given, "snr")
    /\ given.snr.n < params.snr_range[1] * given.snr.d
    /\ example.snr.n >= params.snr_range[1] * example.snr.d
=============================================================================
